---- MODULE Spec2Model ----
(***************************************************************************)
(* Model of the embind engine of wazero's Emscripten support: the type     *)
(* registry and dependency resolver (registerType,                         *)
(* whenDependentTypesAreResolved), the public-symbol table with its        *)
(* arity-keyed overload tables (exposePublicSymbol, replacePublicSymbol,   *)
(* ensureOverloadTable), the invoker factory (craftInvokerFunction,        *)
(* runDestructors) and the host entry point CallFunction.                  *)
(*                                                                         *)
(* The engine is single-threaded: every import and every CallFunction runs *)
(* to completion, so each is one action, with the callbacks it drains and  *)
(* the registrations those callbacks re-enter computed inside the action.  *)
(***************************************************************************)
EXTENDS Integers, Sequences, FiniteSets, TLC

(***************************************************************************)
(* Bounds of the model.                                                    *)
(***************************************************************************)
\* raw type ids are 1..MaxId (0 is the id registerType rejects)
MaxId == 2
\* at most MaxWaiters calls of whenDependentTypesAreResolved in one run,
\* counting the value arrays declared and not yet finalized
MaxWaiters == 2
\* under Spec functions take 0..MaxParams parameters
MaxParams == 1
\* under SpecCall functions take 0..MaxCallParams parameters
MaxCallParams == 2
\* a value array has at most MaxElements elements
MaxElements == 1

Ids == 1..MaxId
RawIds == 0..MaxId
Names == {"f"}
OK == "ok"

(***************************************************************************)
(* Registered types.  Of a type the engine reads its name (a return type   *)
(* named "void" is not decoded) and whether it has a destructor function.  *)
(***************************************************************************)
Nil == [name |-> "nil", destructor |-> FALSE, elements |-> <<>>]
voidType == [name |-> "void", destructor |-> FALSE, elements |-> <<>>]
stdStringType == [name |-> "std::string", destructor |-> TRUE, elements |-> <<>>]
emvalType == [name |-> "emscripten::val", destructor |-> FALSE, elements |-> <<>>]

\* options == nil and ignoreDuplicateRegistrations == false behave alike
registerTypeOptions == [ignoreDuplicateRegistrations : BOOLEAN]
NoOptions == [ignoreDuplicateRegistrations |-> FALSE]
IgnoreDuplicates == [ignoreDuplicateRegistrations |-> TRUE]

\* the registration imports: the type each passes, its options, and whether
\* it looks at the error registerType returns (and then panics)
TypeImports ==
    { [type |-> voidType, options |-> NoOptions, checksErr |-> TRUE],
      [type |-> stdStringType, options |-> NoOptions, checksErr |-> FALSE],
      [type |-> emvalType, options |-> IgnoreDuplicates, checksErr |-> FALSE] }

(***************************************************************************)
(* Go maps as functions.                                                   *)
(***************************************************************************)
EmptyMap == [x \in {} |-> 0]
Put(m, k, v) == [x \in (DOMAIN m) \cup {k} |-> IF x = k THEN v ELSE m[x]]
Remove(m, k) == [x \in (DOMAIN m) \ {k} |-> m[x]]
Has(m, k) == k \in DOMAIN m

Res(e, err) == [e |-> e, err |-> err]

VARIABLES
    registeredTypes,        \* engine.registeredTypes: raw id -> type
    typeDependencies,       \* engine.typeDependencies: raw id -> ids
    awaitingDependencies,   \* engine.awaitingDependencies: raw id -> callbacks
    publicSymbols,          \* engine.publicSymbols: name -> symbol
    closures,               \* the variables captured by each call of
                            \* whenDependentTypesAreResolved, with its history
    registeredTuples,       \* engine.registeredTuples: raw id -> elements
    lastOp,                 \* the last operation and what it returned
    lastCall,               \* what the last CallFunction did
    mod,                    \* engine.mod: the module the engine is bound to
    lastGet,                \* the last MustGetEngineFromContext call
    emvalEngine,            \* engine.emvalEngine: the emval handle table
    lastEmval,              \* what the last emval import did
    second,                 \* the tables of a second engine CreateEngine made
    lastWire,               \* the last conversion of a bool to or from the wire
    emvalMethods,           \* the method callers of the emval engine
    lastCaller,             \* the last _emval_get_method_caller and those before it
    registeredClasses,      \* engine.registeredClasses, by class name
    fired,                  \* the callbacks the last import ran, in the order they ran
    registeredObjects,      \* engine.registeredObjects: raw id -> fields
    registeredEnums,        \* engine.registeredEnums: name -> enum
    lastEnum,               \* the last enum import and what it did
    cxa                     \* the package variables of exceptions.go and the
                            \* exception headers in the memory of the guest

vars == <<registeredTypes, typeDependencies, awaitingDependencies,
          publicSymbols, closures, registeredTuples, lastOp, lastCall, mod,
          lastGet, emvalEngine, lastEmval, second, lastWire, emvalMethods,
          lastCaller, registeredClasses, fired, registeredObjects,
          registeredEnums, lastEnum, cxa>>

\* what the imports of the type registry and CallFunction leave alone
more == <<emvalMethods, lastCaller, registeredEnums, lastEnum, cxa>>
\* the tables of the engine that only the class and value object imports
\* assign, and the callbacks of the last import
others == <<registeredClasses, fired, registeredObjects>>
aside == <<emvalEngine, lastEmval, second, lastWire, more>>

Engine ==
    [registeredTypes |-> registeredTypes,
     typeDependencies |-> typeDependencies,
     awaitingDependencies |-> awaitingDependencies,
     publicSymbols |-> publicSymbols,
     closures |-> closures,
     registeredClasses |-> registeredClasses,
     registeredObjects |-> registeredObjects,
     fired |-> <<>>]

(***************************************************************************)
(* Public symbols.  A symbol is {argCount, overloadTable, fn}; a nil       *)
(* overloadTable is hasTable = FALSE.  fn is one of                        *)
(*   stub      the callback of _embind_register_function that returns the  *)
(*             unbound-types error,                                        *)
(*   invoker   the function craftInvokerFunction returns,                  *)
(*   resolver  the function ensureOverloadTable injects.                   *)
(* w is the index of the registration (its closure) that made the fn.      *)
(***************************************************************************)
Stub(w) == [kind |-> "stub", w |-> w, argTypes |-> <<>>]
Resolver == [kind |-> "resolver", w |-> 0, argTypes |-> <<>>]
Symbol(argCount, fn) ==
    [argCount |-> argCount, fn |-> fn, hasTable |-> FALSE, overloadTable |-> EmptyMap]
Entry(argCount, fn) == [argCount |-> argCount, fn |-> fn]

ensureOverloadTable(ps, methodName) ==
    IF ~ps[methodName].hasTable
    THEN LET prevFunc == ps[methodName].fn
             prevArgCount == ps[methodName].argCount
         IN  [ps EXCEPT ![methodName] =
                 [argCount |-> prevArgCount,
                  fn |-> Resolver,
                  hasTable |-> TRUE,
                  overloadTable |-> Put(EmptyMap, prevArgCount, Entry(prevArgCount, prevFunc))]]
    ELSE ps

\* panics ("ErrPublicNameTwice") when the overload table has the arity
exposePublicSymbol(ps, name, value, numArguments) ==
    IF Has(ps, name)
    THEN IF ps[name].hasTable /\ Has(ps[name].overloadTable, numArguments)
         THEN [ps |-> ps, err |-> "ErrPublicNameTwice"]
         ELSE LET ps1 == ensureOverloadTable(ps, name)
              IN  [ps |-> [ps1 EXCEPT ![name].overloadTable =
                               Put(@, numArguments, Entry(numArguments, value))],
                   err |-> OK]
    ELSE [ps |-> Put(ps, name, Symbol(numArguments, value)), err |-> OK]

replacePublicSymbol(ps, name, value, numArguments) ==
    IF ~Has(ps, name)
    THEN [ps |-> ps, err |-> "ErrNonexistentSymbol"]
    ELSE IF ps[name].hasTable /\ numArguments > 0
         THEN [ps |-> [ps EXCEPT ![name].overloadTable =
                          Put(@, numArguments, Entry(numArguments, value))],
               err |-> OK]
         ELSE [ps |-> [ps EXCEPT ![name] = Symbol(numArguments, value)], err |-> OK]

(***************************************************************************)
(* craftInvokerFunction: the checks made when the invoker is built.  The   *)
(* invoker keeps argTypes = <<return type, this type (nil), parameters>>.  *)
(***************************************************************************)
craftInvokerFunction(w, argTypes, isAsync) ==
    IF Len(argTypes) < 2 THEN [fn |-> Resolver, err |-> "PanicArgTypes"]
    ELSE IF isAsync THEN [fn |-> Resolver, err |-> "PanicAsync"]
    ELSE [fn |-> [kind |-> "invoker", w |-> w, argTypes |-> argTypes], err |-> OK]

(***************************************************************************)
(* The type registry and the dependency resolver.  An awaiting callback is *)
(* {w, myI, dt}: the closure it belongs to and the myI and dt it captured. *)
(***************************************************************************)
\* the getTypeConverters of _embind_register_function
FunctionProduce(e, w, produce, typeConverters) ==
    LET invokerArgsArray == <<typeConverters[1], Nil>> \o Tail(typeConverters)
        crafted == craftInvokerFunction(w, invokerArgsArray, produce.isAsync)
        replaced == replacePublicSymbol(e.publicSymbols, produce.name, crafted.fn,
                                        produce.publicSymbolArgs)
    IN  IF crafted.err # OK THEN [e |-> e, err |-> crafted.err, out |-> <<>>]
        ELSE [e |-> [e EXCEPT !.publicSymbols = replaced.ps],
              err |-> replaced.err, out |-> <<>>]

\* the getTypeConverters of _embind_finalize_value_object: field i is read
\* with types[i] and written with types[i + len(fieldRecords)]
ObjectProduce(e, w, produce, types) ==
    LET fieldRecords == produce.elementsLength
    IN  [e |-> e, err |-> OK,
         out |-> << [name |-> "object", destructor |-> TRUE,
                     elements |-> [i \in 1..fieldRecords |->
                                     [read |-> types[i].name,
                                      write |-> types[i + fieldRecords].name]]] >>]

\* the getTypeConverters of _embind_finalize_value_array: element i is read
\* with types[i] and written with types[i + elementsLength]
TupleProduce(e, w, produce, types) ==
    LET elementsLength == produce.elementsLength
    IN  [e |-> e, err |-> OK,
         out |-> << [name |-> "tuple", destructor |-> TRUE,
                     elements |-> [i \in 1..elementsLength |->
                                     [read |-> types[i].name,
                                      write |-> types[i + elementsLength].name]]] >>]

\* a registered type is a Go value behind the registeredType interface; the
\* records of the imports above are neither of the two types below
IsClassType(t) == "goType" \in DOMAIN t /\ t.goType = "classType"
IsPointerType(t) == "goType" \in DOMAIN t /\ t.goType = "registeredPointerType"

\* &registeredPointerType{...}: the class is referred to by its key in
\* registeredClasses
registeredPointerType(name, registeredClass, isReference, isConst) ==
    [name |-> name, destructor |-> TRUE, elements |-> <<>>,
     goType |-> "registeredPointerType", registeredClass |-> registeredClass,
     isReference |-> isReference, isConst |-> isConst, isSmartPointer |-> FALSE]

NoClass == ""

\* &classType{...} as _embind_register_class makes it; a nil constructors
\* map is hasConstructors = FALSE
newClassType(rawType, name) ==
    [rawType |-> rawType, name |-> name, baseClass |-> NoClass,
     derivedClasses |-> <<>>, methods |-> EmptyMap,
     hasConstructors |-> FALSE, constructors |-> EmptyMap,
     properties |-> EmptyMap]

\* the function of the class symbol once the class is resolved
Constructor(w, className) ==
    [kind |-> "constructor", w |-> w, argTypes |-> <<>>, className |-> className]

\* the getTypeConverters of _embind_register_class.  A failed type assertion
\* panics: what was assigned before it stays assigned.
ClassProduce(e, w, produce, resolvedTypes) ==
    LET name == produce.name
        known == Has(e.registeredClasses, name)
        e1 == IF known THEN e
              ELSE [e EXCEPT !.registeredClasses =
                       Put(@, name, newClassType(produce.rawType, name))]
        e2 == [e1 EXCEPT !.registeredClasses[name].baseClass =
                             resolvedTypes[1].name,
                         !.registeredClasses[resolvedTypes[1].name].derivedClasses =
                             Append(@, name)]
        e3 == IF produce.baseClassRawType > 0 THEN e2 ELSE e1
        replaced == replacePublicSymbol(e3.publicSymbols, name,
                                        Constructor(w, name), 0)
    IN  IF known /\ e.registeredClasses[name].rawType # 0
        THEN [e |-> e, err |-> "ErrClassTwice", out |-> <<>>]
        ELSE IF produce.baseClassRawType > 0 /\ ~IsClassType(resolvedTypes[1])
        THEN [e |-> e1, err |-> "PanicTypeAssertion", out |-> <<>>]
        ELSE IF replaced.err # OK
        THEN [e |-> e3, err |-> replaced.err, out |-> <<>>]
        ELSE [e |-> [e3 EXCEPT !.publicSymbols = replaced.ps], err |-> OK,
              out |-> << registeredPointerType(name, name, TRUE, FALSE),
                         registeredPointerType(name \o "*", name, FALSE, FALSE),
                         registeredPointerType(name \o " const*", name, FALSE,
                                               TRUE) >>]

RECURSIVE whenDependentTypesAreResolved(_, _, _, _)

\* the inner getTypeConverters of _embind_register_class_constructor, run
\* when the argument types are registered: the constructor of the arity
\* becomes the invoker
ConstructorArgsProduce(e, w, produce, argTypes) ==
    LET newArgtypes == <<argTypes[1], Nil>> \o Tail(argTypes)
        crafted == craftInvokerFunction(w, newArgtypes, FALSE)
    IN  IF crafted.err # OK THEN [e |-> e, err |-> crafted.err, out |-> <<>>]
        ELSE [e |-> [e EXCEPT !.registeredClasses[produce.className]
                                  .constructors[produce.arity] = crafted.fn],
              err |-> OK, out |-> <<>>]

\* the getTypeConverters of _embind_register_class_constructor, run when the
\* class is registered
ConstructorProduce(e, w, produce, resolvedTypes) ==
    LET classType == resolvedTypes[1]
        className == classType.registeredClass
        arity == produce.argCount - 1
        e1 == [e EXCEPT !.registeredClasses[className].hasConstructors = TRUE]
        e2 == [e1 EXCEPT !.registeredClasses[className].constructors =
                             Put(@, arity, Stub(w))]
        r == whenDependentTypesAreResolved(e2, <<>>, produce.rawArgTypes,
                [kind |-> "constructorArgs", className |-> className,
                 arity |-> arity, name |-> produce.name, publicSymbolArgs |-> arity,
                 isAsync |-> FALSE, elementsLength |-> 0])
    IN  IF ~IsPointerType(classType)
        THEN [e |-> e, err |-> "PanicTypeAssertion", out |-> <<>>]
        ELSE IF Has(e1.registeredClasses[className].constructors, arity)
        THEN [e |-> e1, err |-> "ErrConstructorTwice", out |-> <<>>]
        ELSE [e |-> r.e, err |-> r.err, out |-> <<>>]

\* a publicSymbol of a class's methods; className is "" where it is not set
MethodSymbol(argCount, fn, className) ==
    [argCount |-> argCount, fn |-> fn, hasTable |-> FALSE,
     overloadTable |-> EmptyMap, className |-> className]

\* ensureOverloadTable on the methods of a class: the symbol keeps its className
ensureMethodOverloadTable(methods, methodName) ==
    [methods EXCEPT ![methodName] =
        [className |-> methods[methodName].className]
        @@ ensureOverloadTable(methods, methodName)[methodName]]

\* the replacement of the unbound handler of a method by memberFunction,
\* whose argCount is set only where there is no overload table (-1: nil)
BindMethod(methods, methodName, fn, arity) ==
    IF ~methods[methodName].hasTable
    THEN [methods EXCEPT ![methodName] = MethodSymbol(arity, fn, "")]
    ELSE [methods EXCEPT ![methodName].overloadTable =
             Put(@, arity, MethodSymbol(-1, fn, ""))]

\* the inner getTypeConverters of _embind_register_class_function, run when
\* the argument types are registered: no other class is assigned
ClassFunctionArgsProduce(e, w, produce, argTypes) ==
    LET crafted == craftInvokerFunction(w, argTypes, produce.isAsync)
        methods == e.registeredClasses[produce.className].methods
    IN  IF crafted.err # OK THEN [e |-> e, err |-> crafted.err, out |-> <<>>]
        ELSE [e |-> [e EXCEPT !.registeredClasses[produce.className].methods =
                        BindMethod(methods, produce.methodName, crafted.fn,
                                   produce.arity)],
              err |-> OK, out |-> <<>>]

\* the inner getTypeConverters of _embind_register_class_class_function: the
\* derived classes without the method get memberFunction
ClassClassFunctionArgsProduce(e, w, produce, argTypes) ==
    LET invokerArgsArray == <<argTypes[1], Nil>> \o Tail(argTypes)
        crafted == craftInvokerFunction(w, invokerArgsArray, produce.isAsync)
        rc == e.registeredClasses
        methods == rc[produce.className].methods
        memberFunction == MethodSymbol(IF methods[produce.methodName].hasTable
                                       THEN -1 ELSE produce.arity, crafted.fn, "")
        rc1 == [rc EXCEPT ![produce.className].methods =
                   BindMethod(methods, produce.methodName, crafted.fn,
                              produce.arity)]
        derivedClasses == rc1[produce.className].derivedClasses
        derived == {derivedClasses[i] : i \in 1..Len(derivedClasses)}
        rc2 == [n \in DOMAIN rc1 |->
                  IF n \in derived /\ ~Has(rc1[n].methods, produce.methodName)
                  THEN [rc1[n] EXCEPT !.methods =
                           Put(@, produce.methodName, memberFunction)]
                  ELSE rc1[n]]
    IN  IF crafted.err # OK THEN [e |-> e, err |-> crafted.err, out |-> <<>>]
        ELSE [e |-> [e EXCEPT !.registeredClasses = rc2], err |-> OK, out |-> <<>>]

\* the getTypeConverters of _embind_register_class_function (produce.static
\* is FALSE) and of _embind_register_class_class_function, run when the
\* class is registered
ClassFunctionProduce(e, w, produce, classTypes) ==
    LET classType == classTypes[1]
        className == classType.registeredClass
        methodName == produce.methodName
        methods == e.registeredClasses[className].methods
        arity == IF produce.static THEN produce.argCount - 1
                 ELSE produce.argCount - 2
        unboundTypesHandler == Stub(w)
        first == IF produce.static THEN ~Has(methods, methodName)
                 ELSE \/ ~Has(methods, methodName)
                      \/ /\ ~methods[methodName].hasTable
                         /\ methods[methodName].className # classType.name
                         /\ methods[methodName].argCount = arity
        methods1 ==
            IF first
            THEN Put(methods, methodName,
                     MethodSymbol(arity, unboundTypesHandler,
                                  IF produce.static THEN "" ELSE classType.name))
            ELSE [ensureMethodOverloadTable(methods, methodName)
                    EXCEPT ![methodName].overloadTable =
                       Put(@, arity, MethodSymbol(-1, unboundTypesHandler, ""))]
        e1 == [e EXCEPT !.registeredClasses[className].methods = methods1]
        r == whenDependentTypesAreResolved(e1, <<>>, produce.rawArgTypes,
                [kind |-> IF produce.static THEN "classClassFunctionArgs"
                          ELSE "classFunctionArgs",
                 className |-> className, methodName |-> methodName,
                 arity |-> arity, name |-> methodName, publicSymbolArgs |-> arity,
                 isAsync |-> produce.isAsync, elementsLength |-> 0])
    IN  IF ~IsPointerType(classType)
        THEN [e |-> e, err |-> "PanicTypeAssertion", out |-> <<>>]
        ELSE [e |-> r.e, err |-> r.err, out |-> <<>>]

\* &classProperty{get, set}: each is the closure assigned, or nil;
\* setterArgumentType is the type the set closure captured (Nil: none)
classProperty(get, set, setterArgumentType) ==
    [get |-> get, set |-> set, setterArgumentType |-> setterArgumentType]

\* the inner getTypeConverters of _embind_register_class_property, run when
\* the required types are registered: set is assigned only when setter > 0
PropertyTypesProduce(e, w, produce, types) ==
    LET desc == classProperty("getter",
                              IF produce.setter > 0 THEN "setter" ELSE "nil",
                              IF produce.setter > 0 THEN types[2] ELSE Nil)
    IN  [e |-> [e EXCEPT !.registeredClasses[produce.className].properties =
                             Put(@, produce.fieldName, desc)],
         err |-> OK, out |-> <<>>]

\* the getTypeConverters of _embind_register_class_property, run when the
\* class is registered
PropertyProduce(e, w, produce, classTypes) ==
    LET classType == classTypes[1]
        className == classType.registeredClass
        desc == classProperty("unbound",
                              IF produce.setter > 0 THEN "unbound" ELSE "readOnly",
                              Nil)
        e1 == [e EXCEPT !.registeredClasses[className].properties =
                            Put(@, produce.fieldName, desc)]
        requiredTypes == IF produce.setter > 0
                         THEN <<produce.getterReturnType, produce.getterReturnType>>
                         ELSE <<produce.getterReturnType>>
        r == whenDependentTypesAreResolved(e1, <<>>, requiredTypes,
                [kind |-> "propertyTypes", className |-> className,
                 fieldName |-> produce.fieldName, setter |-> produce.setter,
                 name |-> produce.fieldName, publicSymbolArgs |-> 0,
                 isAsync |-> FALSE, elementsLength |-> 0])
    IN  IF ~IsPointerType(classType)
        THEN [e |-> e, err |-> "PanicTypeAssertion", out |-> <<>>]
        ELSE [e |-> r.e, err |-> r.err, out |-> <<>>]

getTypeConverters(e, w, produce, typeConverters) ==
    IF produce.kind = "function"
    THEN FunctionProduce(e, w, produce, typeConverters)
    ELSE IF produce.kind = "property"
    THEN PropertyProduce(e, w, produce, typeConverters)
    ELSE IF produce.kind = "propertyTypes"
    THEN PropertyTypesProduce(e, w, produce, typeConverters)
    ELSE IF produce.kind = "class"
    THEN ClassProduce(e, w, produce, typeConverters)
    ELSE IF produce.kind = "constructor"
    THEN ConstructorProduce(e, w, produce, typeConverters)
    ELSE IF produce.kind = "constructorArgs"
    THEN ConstructorArgsProduce(e, w, produce, typeConverters)
    ELSE IF produce.kind = "object"
    THEN ObjectProduce(e, w, produce, typeConverters)
    ELSE IF produce.kind = "classFunction"
    THEN ClassFunctionProduce(e, w, produce, typeConverters)
    ELSE IF produce.kind = "classFunctionArgs"
    THEN ClassFunctionArgsProduce(e, w, produce, typeConverters)
    ELSE IF produce.kind = "classClassFunctionArgs"
    THEN ClassClassFunctionArgsProduce(e, w, produce, typeConverters)
    ELSE TupleProduce(e, w, produce, typeConverters)

RECURSIVE registerType(_, _, _, _)
RECURSIVE runCallbacks(_, _, _)
RECURSIVE onComplete(_, _)
RECURSIVE registerAll(_, _, _, _)

\* the callback whenDependentTypesAreResolved queues under dt
callback(e, c) ==
    LET cl == e.closures[c.w]
        cl1 == [cl EXCEPT !.typeConverters[c.myI] = e.registeredTypes[c.dt],
                          !.registered = @ + 1,
                          !.ran[c.myI] = @ + 1]
        e1 == [e EXCEPT !.closures[c.w] = cl1, !.fired = Append(@, c)]
    IN  IF cl1.registered = Len(cl1.unregisteredTypes)
        THEN onComplete(e1, c.w)
        ELSE Res(e1, OK)

\* the loop of registerType run from the last callback to the first
runCallbacks_LastFirst(e, callbacks, i) ==
    IF i > Len(callbacks) THEN Res(e, OK)
    ELSE LET r == callback(e, callbacks[Len(callbacks) + 1 - i])
         IN  IF r.err # OK THEN r ELSE runCallbacks(r.e, callbacks, i + 1)

\* the loop of registerType over the drained callbacks: the first error
\* returns, and the callbacks after it are not run
runCallbacks(e, callbacks, i) ==
    IF i > Len(callbacks) THEN Res(e, OK)
    ELSE LET r == callback(e, callbacks[i])
         IN  IF r.err # OK THEN r ELSE runCallbacks(r.e, callbacks, i + 1)

\* registerType with the type stored before the duplicate check
registerType_StoreFirst(e, rawType, registeredInstance, options) ==
    IF rawType = 0 THEN Res(e, "ErrTypeId")
    ELSE LET e1 == [e EXCEPT
                      !.registeredTypes = Put(@, rawType, registeredInstance),
                      !.typeDependencies = Remove(@, rawType)]
         IN  IF Has(e.registeredTypes, rawType)
             THEN IF options.ignoreDuplicateRegistrations THEN Res(e1, OK)
                  ELSE Res(e1, "ErrTwice")
             ELSE IF Has(e1.awaitingDependencies, rawType)
             THEN runCallbacks(
                    [e1 EXCEPT !.awaitingDependencies = Remove(@, rawType)],
                    e1.awaitingDependencies[rawType], 1)
             ELSE Res(e1, OK)

\* registerType with ignoreDuplicateRegistrations not looked at
registerType_OptionsIgnored(e, rawType, registeredInstance, options) ==
    IF rawType = 0 THEN Res(e, "ErrTypeId")
    ELSE IF Has(e.registeredTypes, rawType) THEN Res(e, "ErrTwice")
    ELSE LET e1 == [e EXCEPT
                      !.registeredTypes = Put(@, rawType, registeredInstance),
                      !.typeDependencies = Remove(@, rawType)]
         IN  IF Has(e1.awaitingDependencies, rawType)
             THEN runCallbacks(
                    [e1 EXCEPT !.awaitingDependencies = Remove(@, rawType)],
                    e1.awaitingDependencies[rawType], 1)
             ELSE Res(e1, OK)

\* registerType taking the type out again when a callback fails
registerType_RolledBack(e, rawType, registeredInstance, options) ==
    IF rawType = 0 THEN Res(e, "ErrTypeId")
    ELSE IF Has(e.registeredTypes, rawType)
    THEN IF options.ignoreDuplicateRegistrations THEN Res(e, OK)
         ELSE Res(e, "ErrTwice")
    ELSE LET e1 == [e EXCEPT
                      !.registeredTypes = Put(@, rawType, registeredInstance),
                      !.typeDependencies = Remove(@, rawType)]
             r == runCallbacks(
                    [e1 EXCEPT !.awaitingDependencies = Remove(@, rawType)],
                    e1.awaitingDependencies[rawType], 1)
         IN  IF Has(e1.awaitingDependencies, rawType)
             THEN IF r.err # OK
                  THEN Res([r.e EXCEPT !.registeredTypes = Remove(@, rawType)],
                           r.err)
                  ELSE r
             ELSE Res(e1, OK)

\* registerType as it would be if it ran the callbacks of rawType and left
\* them in awaitingDependencies
registerType_QueueKept(e, rawType, registeredInstance, options) ==
    IF rawType = 0 THEN Res(e, "ErrTypeId")
    ELSE IF Has(e.registeredTypes, rawType)
    THEN IF options.ignoreDuplicateRegistrations THEN Res(e, OK)
         ELSE Res(e, "ErrTwice")
    ELSE LET e1 == [e EXCEPT
                      !.registeredTypes = Put(@, rawType, registeredInstance),
                      !.typeDependencies = Remove(@, rawType)]
         IN  IF Has(e1.awaitingDependencies, rawType)
             THEN runCallbacks(e1, e1.awaitingDependencies[rawType], 1)
             ELSE Res(e1, OK)

registerType(e, rawType, registeredInstance, options) ==
    IF rawType = 0 THEN Res(e, "ErrTypeId")
    ELSE IF Has(e.registeredTypes, rawType)
    THEN IF options.ignoreDuplicateRegistrations THEN Res(e, OK)
         ELSE Res(e, "ErrTwice")
    ELSE LET e1 == [e EXCEPT
                      !.registeredTypes = Put(@, rawType, registeredInstance),
                      !.typeDependencies = Remove(@, rawType)]
         IN  IF Has(e1.awaitingDependencies, rawType)
             THEN runCallbacks(
                    [e1 EXCEPT !.awaitingDependencies = Remove(@, rawType)],
                    e1.awaitingDependencies[rawType], 1)
             ELSE Res(e1, OK)

\* the loop of onComplete that registers the produced types
registerAll(e, myTypes, myTypeConverters, i) ==
    IF i > Len(myTypes) THEN Res(e, OK)
    ELSE LET r == registerType(e, myTypes[i], myTypeConverters[i], NoOptions)
         IN  IF r.err # OK THEN r
             ELSE registerAll(r.e, myTypes, myTypeConverters, i + 1)

\* onComplete; invoked and invokedReady record, for the closure, how often
\* getTypeConverters was called and whether every dependency was registered
\* and passed at each call
onComplete(e, w) ==
    LET cl == e.closures[w]
        ready == \A i \in 1..Len(cl.dependentTypes) :
                    /\ Has(e.registeredTypes, cl.dependentTypes[i])
                    /\ cl.typeConverters[i] = e.registeredTypes[cl.dependentTypes[i]]
        e0 == [e EXCEPT !.closures[w].invoked = @ + 1,
                        !.closures[w].invokedReady = @ /\ ready]
        g == getTypeConverters(e0, w, cl.produce, cl.typeConverters)
    IN  IF g.err # OK THEN Res(g.e, g.err)
        ELSE IF Len(g.out) # Len(cl.myTypes) THEN Res(g.e, "ErrMismatch")
        ELSE registerAll(g.e, cl.myTypes, g.out, 1)

\* the indices of dependentTypes equal to d that are not registered, in order
RECURSIVE NewCallbacks(_, _, _, _)
NewCallbacks(w, dependentTypes, d, i) ==
    IF i > Len(dependentTypes) THEN <<>>
    ELSE (IF dependentTypes[i] = d THEN << [w |-> w, myI |-> i, dt |-> d] >> ELSE <<>>)
         \o NewCallbacks(w, dependentTypes, d, i + 1)

RECURSIVE SetDependencies(_, _, _, _)
SetDependencies(td, myTypes, dependentTypes, i) ==
    IF i > Len(myTypes) THEN td
    ELSE SetDependencies(Put(td, myTypes[i], dependentTypes), myTypes, dependentTypes, i + 1)

whenDependentTypesAreResolved(e, myTypes, dependentTypes, produce) ==
    LET w == Len(e.closures) + 1
        rt == e.registeredTypes
        unregistered(d) == ~Has(rt, d)
        typeConverters == [i \in 1..Len(dependentTypes) |->
                             IF Has(rt, dependentTypes[i]) THEN rt[dependentTypes[i]]
                             ELSE Nil]
        unregisteredTypes == SelectSeq(dependentTypes, unregistered)
        waited == {dependentTypes[i] : i \in 1..Len(dependentTypes)} \ DOMAIN rt
        ad == e.awaitingDependencies
        ad1 == [d \in (DOMAIN ad) \cup waited |->
                  (IF Has(ad, d) THEN ad[d] ELSE <<>>)
                  \o (IF d \in waited THEN NewCallbacks(w, dependentTypes, d, 1)
                      ELSE <<>>)]
        closure == [myTypes |-> myTypes,
                    dependentTypes |-> dependentTypes,
                    unregisteredTypes |-> unregisteredTypes,
                    registered |-> 0,
                    typeConverters |-> typeConverters,
                    produce |-> produce,
                    queued |-> [i \in 1..Len(dependentTypes) |->
                                  unregistered(dependentTypes[i])],
                    ran |-> [i \in 1..Len(dependentTypes) |-> 0],
                    invoked |-> 0,
                    invokedReady |-> TRUE]
        e1 == [e EXCEPT
                 !.typeDependencies = SetDependencies(@, myTypes, dependentTypes, 1),
                 !.awaitingDependencies = ad1,
                 !.closures = Append(@, closure)]
    IN  IF Len(unregisteredTypes) = 0 THEN onComplete(e1, w) ELSE Res(e1, OK)

(***************************************************************************)
(* The invoker craftInvokerFunction returns, and CallFunction.             *)
(*                                                                         *)
(* What the guest and the codecs do is the environment of a call:          *)
(*   env.fault    the step that fails: encoding argument idx, the guest    *)
(*                call, the idx-th queued destructor, or the decoding of   *)
(*                the return value;                                        *)
(*   env.appends  the arguments whose toWireType appends a destructor to   *)
(*                the destructor list it is handed (a nil list takes none).*)
(* A destructor is named by the index of the argument that appended it.    *)
(***************************************************************************)
NoFault == [stage |-> "none", idx |-> 0]
Faults(maxParams) ==
    {NoFault, [stage |-> "call", idx |-> 0], [stage |-> "decode", idx |-> 0]}
    \cup [stage : {"encode", "destructor"}, idx : 1..maxParams]
Envs(maxParams) == [fault : Faults(maxParams), appends : SUBSET (1..maxParams)]
NoFaultEnvs(maxParams) == [fault : {NoFault}, appends : {1..maxParams}]

\* the loop over the arguments: encodes argument i and the ones after it
RECURSIVE encodeArguments(_, _, _, _, _)
encodeArguments(argTypes, needsDestructorStack, env, i, acc) ==
    IF i > Len(argTypes) - 2 THEN acc
    ELSE IF env.fault = [stage |-> "encode", idx |-> i]
    THEN [acc EXCEPT !.err = "ErrEncode",
                     !.events = Append(@, <<"encode-failed", i>>)]
    ELSE encodeArguments(argTypes, needsDestructorStack, env, i + 1,
            [acc EXCEPT !.events = Append(@, <<"encode", i>>),
                        !.appended = IF needsDestructorStack /\ i \in env.appends
                                     THEN Append(@, i) ELSE @])

\* runDestructors: calls the destructors in order and returns at the first
\* error
RECURSIVE runDestructors(_, _, _, _)
\* runDestructors with the loop started at the second destructor
runDestructors_FirstSkipped(destructors, env, j, acc) ==
    IF j > Len(destructors) THEN acc
    ELSE IF j = 1 THEN runDestructors(destructors, env, 2, acc)
    ELSE IF env.fault = [stage |-> "destructor", idx |-> j]
    THEN [acc EXCEPT !.err = "ErrDestructor",
                     !.ran = Append(@, destructors[j]),
                     !.events = Append(@, <<"destructor-failed", destructors[j]>>)]
    ELSE runDestructors(destructors, env, j + 1,
            [acc EXCEPT !.ran = Append(@, destructors[j]),
                        !.events = Append(@, <<"destructor", destructors[j]>>)])

runDestructors(destructors, env, j, acc) ==
    IF j > Len(destructors) THEN acc
    ELSE IF env.fault = [stage |-> "destructor", idx |-> j]
    THEN [acc EXCEPT !.err = "ErrDestructor",
                     !.ran = Append(@, destructors[j]),
                     !.events = Append(@, <<"destructor-failed", destructors[j]>>)]
    ELSE runDestructors(destructors, env, j + 1,
            [acc EXCEPT !.ran = Append(@, destructors[j]),
                        !.events = Append(@, <<"destructor", destructors[j]>>)])

\* the function craftInvokerFunction returns, for a free function
\* (classType == nil, so isClassMethodFunc is false)
invoke(fn, nArguments, env) ==
    LET argTypes == fn.argTypes
        argCount == Len(argTypes)
        needsDestructorStack ==
            \E i \in 2..argCount : argTypes[i] # Nil /\ argTypes[i].destructor
        returns == argTypes[1].name # "void"
        start == [err |-> OK, appended |-> <<>>, ran |-> <<>>, events |-> <<>>]
        encoded == encodeArguments(argTypes, needsDestructorStack, env, 1, start)
        called == IF env.fault.stage = "call"
                  THEN [encoded EXCEPT !.err = "ErrCall",
                                       !.events = Append(@, <<"call-failed", 0>>)]
                  ELSE [encoded EXCEPT !.events = Append(@, <<"call", 0>>)]
        destructed == IF needsDestructorStack
                      THEN runDestructors(called.appended, env, 1, called)
                      ELSE called
        decoded == IF ~returns THEN destructed
                   ELSE IF env.fault.stage = "decode"
                   THEN [destructed EXCEPT !.err = "ErrDecode",
                                           !.events = Append(@, <<"decode-failed", 0>>)]
                   ELSE [destructed EXCEPT !.events = Append(@, <<"decode", 0>>)]
    IN  IF nArguments # argCount - 2 THEN [start EXCEPT !.err = "ErrArgCount"]
        ELSE IF encoded.err # OK THEN encoded
        ELSE IF called.err # OK THEN called
        ELSE IF destructed.err # OK THEN destructed
        ELSE decoded

\* calling a public symbol's fn with nArguments arguments
callFn(fn, nArguments, wrapped, env) ==
    IF fn.kind = "stub"
    THEN [kind |-> "stub", w |-> fn.w, wrapped |-> wrapped,
          out |-> [err |-> "ErrUnboundTypes", appended |-> <<>>, ran |-> <<>>,
                   events |-> <<>>]]
    ELSE [kind |-> "invoker", w |-> fn.w, wrapped |-> wrapped,
          out |-> invoke(fn, nArguments, env)]

\* the overload resolver passes the argument slice on as ONE argument
\* (fn(ctx, mod, this, arguments), not arguments...)
WrappedArgumentCount == 1

\* engine.CallFunction(ctx, name, arguments...) with len(arguments) = n
Dispatch(ps, name, n, env) ==
    IF ~Has(ps, name)
    THEN [kind |-> "none", w |-> 0, wrapped |-> FALSE,
          out |-> [err |-> "ErrNoSymbol", appended |-> <<>>, ran |-> <<>>,
                   events |-> <<>>]]
    ELSE IF ps[name].fn.kind = "resolver"
    THEN IF ~Has(ps[name].overloadTable, n)
         THEN [kind |-> "none", w |-> 0, wrapped |-> FALSE,
               out |-> [err |-> "ErrArity", appended |-> <<>>, ran |-> <<>>,
                        events |-> <<>>]]
         ELSE callFn(ps[name].overloadTable[n].fn, WrappedArgumentCount, TRUE, env)
    ELSE callFn(ps[name].fn, n, FALSE, env)

(***************************************************************************)
(* The module an engine is bound to.  Every import starts with             *)
(* MustGetEngineFromContext(ctx, mod), mod being the module that calls.    *)
(***************************************************************************)
\* a nil api.Module
NoModule == 0
\* the module instances are 1..MaxModules
MaxModules == 2
Modules == 1..MaxModules
\* the guest whose initialization makes the registrations
GuestModule == 1

\* MustGetEngineFromContext with the module check left out
MustGetEngineFromContext_Unchecked(m) ==
    /\ mod' = m
    /\ lastGet' = [mod |-> m, panicked |-> FALSE]

MustGetEngineFromContext(m) ==
    IF mod # NoModule /\ mod # m
    THEN /\ mod' = mod
         /\ lastGet' = [mod |-> m, panicked |-> TRUE]
    ELSE /\ mod' = m
         /\ lastGet' = [mod |-> m, panicked |-> FALSE]

(***************************************************************************)
(* The emval handle table: a dense array of slots {host value, refcount}   *)
(* with a free-list.  Id 0 is "no handle", ids 1..ReservedHandles are the  *)
(* sentinels undefined, null, true, false.  increfs and decrefs count, for *)
(* a slot, the calls made on it since it was allocated.                    *)
(***************************************************************************)
\* at most MaxHandles live handles beside the sentinels
MaxHandles == 2
\* at most MaxIncrefs calls of incref on one handle
MaxIncrefs == 2
ReservedHandles == 4
Sentinels == <<"undefined", "null", "true", "false">>
HostValues == {"undefined", "null", "true", "false", "x"}
\* the ids a guest passes: no handle, a sentinel, and the slots after the
\* sentinels up to one that is never allocated
Handles == {0, ReservedHandles} \cup
           (ReservedHandles + 1)..(ReservedHandles + MaxHandles + 1)

Slot(value) ==
    [live |-> TRUE, value |-> value, refcount |-> 1, increfs |-> 0, decrefs |-> 0]

createEmvalEngine ==
    [slots |-> [h \in 0..ReservedHandles |->
                  IF h = 0 THEN [Slot("") EXCEPT !.live = FALSE]
                  ELSE Slot(Sentinels[h])],
     freelist |-> <<>>]

isReserved(h) == h \in 1..ReservedHandles
isLive(em, h) == h \in DOMAIN em.slots /\ h > ReservedHandles /\ em.slots[h].live

\* allocate with the id left on the free-list
allocate_FreeListKept(em, value) ==
    IF Len(em.freelist) > 0
    THEN [em |-> [em EXCEPT !.slots[Head(em.freelist)] = Slot(value)],
          id |-> Head(em.freelist)]
    ELSE LET id == Cardinality(DOMAIN em.slots)
         IN  [em |-> [em EXCEPT !.slots = [h \in DOMAIN em.slots \cup {id} |->
                                             IF h = id THEN Slot(value)
                                             ELSE em.slots[h]]],
              id |-> id]

\* a slot for value: the head of the free-list, or a new slot at the end
allocate(em, value) ==
    IF Len(em.freelist) > 0
    THEN [em |-> [em EXCEPT !.slots[Head(em.freelist)] = Slot(value),
                            !.freelist = Tail(@)],
          id |-> Head(em.freelist)]
    ELSE LET id == Cardinality(DOMAIN em.slots)
         IN  [em |-> [em EXCEPT !.slots = [h \in DOMAIN em.slots \cup {id} |->
                                             IF h = id THEN Slot(value)
                                             ELSE em.slots[h]]],
              id |-> id]

toHandle(em, value) ==
    IF \E h \in 1..ReservedHandles : Sentinels[h] = value
    THEN [em |-> em, id |-> CHOOSE h \in 1..ReservedHandles : Sentinels[h] = value]
    ELSE allocate(em, value)

toValue(em, h) ==
    IF isReserved(h) \/ isLive(em, h)
    THEN [value |-> em.slots[h].value, err |-> OK]
    ELSE [value |-> "", err |-> "ErrNoHandle"]

incref(em, h) ==
    IF isReserved(h) THEN [em |-> em, err |-> OK]
    ELSE IF ~isLive(em, h) THEN [em |-> em, err |-> "ErrNoHandle"]
    ELSE [em |-> [em EXCEPT !.slots[h].refcount = @ + 1,
                            !.slots[h].increfs = @ + 1],
          err |-> OK]

\* decref with the slot freed one call late, when the count is below zero
decref_FreedLate(em, h) ==
    IF isReserved(h) THEN [em |-> em, err |-> OK]
    ELSE IF ~isLive(em, h) THEN [em |-> em, err |-> "ErrNoHandle"]
    ELSE LET em1 == [em EXCEPT !.slots[h].refcount = @ - 1,
                               !.slots[h].decrefs = @ + 1]
         IN  IF em1.slots[h].refcount < 0
             THEN [em |-> [em1 EXCEPT !.slots[h].live = FALSE,
                                      !.freelist = Append(@, h)],
                   err |-> OK]
             ELSE [em |-> em1, err |-> OK]

decref(em, h) ==
    IF isReserved(h) THEN [em |-> em, err |-> OK]
    ELSE IF ~isLive(em, h) THEN [em |-> em, err |-> "ErrNoHandle"]
    ELSE LET em1 == [em EXCEPT !.slots[h].refcount = @ - 1,
                               !.slots[h].decrefs = @ + 1]
         IN  IF em1.slots[h].refcount = 0
             THEN [em |-> [em1 EXCEPT !.slots[h].live = FALSE,
                                      !.freelist = Append(@, h)],
                   err |-> OK]
             ELSE [em |-> em1, err |-> OK]

NoEmval == [op |-> "none", handle |-> 0, value |-> "", err |-> OK,
            wasLive |-> FALSE]

NoWire == [op |-> "none", rawType |-> 0, o |-> "", word |-> 0, back |-> "", err |-> OK]

\* the method callers of a new emval engine: none, and the next id is 0
NoMethodCallers ==
    [registeredMethodIds |-> EmptyMap, registeredMethods |-> EmptyMap,
     registeredMethodCount |-> 0]

NoCaller == [op |-> "none", names |-> <<>>, id |-> 0, fresh |-> FALSE,
             seen |-> EmptyMap]

\* the exception pointers and the type pointers of the thrown exceptions
MaxException == 2
ExceptionPtrs == 1..MaxException
MaxExceptionType == 2
ExceptionTypes == 1..MaxExceptionType
\* the type pointers of the catch clauses, and the clauses of a landing pad
MaxClauseType == 3
MaxClauses == 2
\* the handlers a guest is in at the same time
MaxCaught == 3

\* the raw ids and the wire values of the enum registrations
MaxEnumId == 2
MaxEnumValue == 2

NoEnum == [op |-> "none", enum |-> "", name |-> "", value |-> 0,
           had |-> FALSE, err |-> "", before |-> EmptyMap]

\* the header of an exception as __cxa_allocate_exception leaves it
ZeroInfo == [type |-> 0, caught |-> 0, rethrown |-> 0, adjustedPtr |-> 0]

NoCxa == [op |-> "none", ptr |-> 0, ret |-> 0, caught |-> 0, rethrown |-> 0,
          before |-> 0, thrownType |-> 0, clauses |-> <<>>, accept |-> {},
          inLoop |-> [tempRet0 |-> 0, ret |-> 0]]

\* the package variables of exceptions.go before any import ran, the
\* exception headers in the memory of the guest and its tempRet0
NoExceptions ==
    [uncaughtExceptionCount |-> 0, exceptionLast |-> 0,
     exceptionCaught |-> <<>>,
     memory |-> [p \in ExceptionPtrs |-> ZeroInfo],
     tempRet0 |-> 0, thrown |-> {}, uncaught |-> {}, last |-> NoCxa]

\* the fields of the engine that the registrations above do not read
InitMore ==
    /\ cxa = NoExceptions
    /\ registeredEnums = EmptyMap
    /\ lastEnum = NoEnum
    /\ emvalMethods = NoMethodCallers
    /\ lastCaller = NoCaller
    /\ registeredClasses = EmptyMap
    /\ fired = <<>>
    /\ registeredObjects = EmptyMap

\* the engine CreateEngine returns
Created ==
    [registeredTypes |-> EmptyMap, typeDependencies |-> EmptyMap,
     awaitingDependencies |-> EmptyMap, publicSymbols |-> EmptyMap,
     closures |-> <<>>, registeredClasses |-> EmptyMap,
     registeredObjects |-> EmptyMap, fired |-> <<>>]

(***************************************************************************)
(* The state after CreateEngine.                                           *)
(***************************************************************************)
NoCall == [name |-> "", n |-> 0, kind |-> "none", w |-> 0, wrapped |-> FALSE,
           result |-> "none", appended |-> <<>>, ran |-> <<>>, events |-> <<>>]

Init ==
    /\ registeredTypes = EmptyMap
    /\ typeDependencies = EmptyMap
    /\ awaitingDependencies = EmptyMap
    /\ publicSymbols = EmptyMap
    /\ closures = <<>>
    /\ registeredTuples = EmptyMap
    /\ lastOp = [op |-> "CreateEngine", rawType |-> 0, type |-> Nil,
                 options |-> NoOptions, err |-> OK, panicked |-> FALSE]
    /\ lastCall = NoCall
    /\ mod = NoModule
    /\ lastGet = [mod |-> NoModule, panicked |-> FALSE]
    /\ emvalEngine = createEmvalEngine
    /\ lastEmval = NoEmval
    /\ second = Created
    /\ lastWire = NoWire
    /\ InitMore

SetEngine(e) ==
    /\ registeredTypes' = e.registeredTypes
    /\ typeDependencies' = e.typeDependencies
    /\ awaitingDependencies' = e.awaitingDependencies
    /\ publicSymbols' = e.publicSymbols
    /\ closures' = e.closures
    /\ registeredClasses' = e.registeredClasses
    /\ fired' = e.fired
    /\ registeredObjects' = e.registeredObjects

\* panicked: the import panicked instead of returning to the guest
Returned(op, rawType, registeredInstance, options, err, panicked) ==
    lastOp' = [op |-> op, rawType |-> rawType, type |-> registeredInstance,
               options |-> options, err |-> err, panicked |-> panicked]

(***************************************************************************)
(* The imports.  What an import changed before it failed stays changed.    *)
(***************************************************************************)
\* _embind_register_void, _bool, _integer, ..., _emval, _memory_view: one
\* call of registerType
EmbindRegisterType(rawType, imp) ==
    LET r == registerType(Engine, rawType, imp.type, imp.options)
    IN  /\ SetEngine(r.e)
        /\ Returned("registerType", rawType, imp.type, imp.options, r.err,
                    imp.checksErr /\ r.err # OK)
        /\ UNCHANGED registeredTuples
        /\ lastCall' = NoCall
        /\ MustGetEngineFromContext(GuestModule)
        /\ UNCHANGED aside

\* _embind_register_function(name, argCount, rawArgTypesAddr, ..., isAsync)
EmbindRegisterFunction(name, argTypes, isAsync) ==
    LET argCount == Len(argTypes)
        publicSymbolArgs == argCount - 1
        w == Len(closures) + 1
        exposed == exposePublicSymbol(publicSymbols, name, Stub(w), publicSymbolArgs)
        e1 == [Engine EXCEPT !.publicSymbols = exposed.ps]
        produce == [kind |-> "function", name |-> name,
                    publicSymbolArgs |-> publicSymbolArgs, isAsync |-> isAsync,
                    elementsLength |-> 0]
        r == IF exposed.err # OK THEN Res(Engine, exposed.err)
             ELSE whenDependentTypesAreResolved(e1, <<>>, argTypes, produce)
    IN  /\ Len(closures) + Cardinality(DOMAIN registeredTuples) < MaxWaiters
        /\ SetEngine(r.e)
        /\ Returned("registerFunction", 0, Nil, NoOptions, r.err, r.err # OK)
        /\ UNCHANGED registeredTuples
        /\ lastCall' = NoCall
        /\ MustGetEngineFromContext(GuestModule)
        /\ UNCHANGED aside

\* _embind_register_value_array(rawType, name, ...)
EmbindRegisterValueArray(rawType) ==
    /\ \/ Len(closures) + Cardinality(DOMAIN registeredTuples) < MaxWaiters
       \/ Has(registeredTuples, rawType)
    /\ registeredTuples' = Put(registeredTuples, rawType, <<>>)
    /\ Returned("registerValueArray", rawType, Nil, NoOptions, OK, FALSE)
    /\ UNCHANGED <<registeredTypes, typeDependencies, awaitingDependencies,
                   publicSymbols, closures, others>>
    /\ lastCall' = NoCall
    /\ MustGetEngineFromContext(GuestModule)
    /\ UNCHANGED aside

\* _embind_register_value_array_element(rawTupleType, getterReturnType, ...,
\* setterArgumentType, ...), for a tuple that _embind_register_value_array made
EmbindRegisterValueArrayElement(rawTupleType, getterReturnType, setterArgumentType) ==
    /\ Has(registeredTuples, rawTupleType)
    /\ Len(registeredTuples[rawTupleType]) < MaxElements
    /\ registeredTuples' =
         [registeredTuples EXCEPT ![rawTupleType] =
            Append(@, [getterReturnType |-> getterReturnType,
                       setterArgumentType |-> setterArgumentType])]
    /\ Returned("registerValueArrayElement", rawTupleType, Nil, NoOptions, OK, FALSE)
    /\ UNCHANGED <<registeredTypes, typeDependencies, awaitingDependencies,
                   publicSymbols, closures, others>>
    /\ lastCall' = NoCall
    /\ MustGetEngineFromContext(GuestModule)
    /\ UNCHANGED aside

\* elementTypes of _embind_finalize_value_array: getter and setter type of
\* each element, interleaved
RECURSIVE ElementTypes(_, _)
ElementTypes(elements, i) ==
    IF i > Len(elements) THEN <<>>
    ELSE <<elements[i].getterReturnType, elements[i].setterArgumentType>>
         \o ElementTypes(elements, i + 1)

\* _embind_finalize_value_array(rawTupleType), for a tuple that
\* _embind_register_value_array made
EmbindFinalizeValueArray(rawTupleType) ==
    LET elements == registeredTuples[rawTupleType]
        produce == [kind |-> "tuple", name |-> "", publicSymbolArgs |-> 0,
                    isAsync |-> FALSE, elementsLength |-> Len(elements)]
        r == whenDependentTypesAreResolved(Engine, <<rawTupleType>>,
                                           ElementTypes(elements, 1), produce)
    IN  /\ Has(registeredTuples, rawTupleType)
        /\ registeredTuples' = Remove(registeredTuples, rawTupleType)
        /\ SetEngine(r.e)
        /\ Returned("finalizeValueArray", rawTupleType, Nil, NoOptions, r.err,
                    r.err # OK)
        /\ lastCall' = NoCall
        /\ MustGetEngineFromContext(GuestModule)
        /\ UNCHANGED aside

\* a CallFunction that drops the symbol whose call failed
CallFunction_SymbolDropped(name, n, env) ==
    LET d == Dispatch(publicSymbols, name, n, env)
    IN  /\ lastCall' = [name |-> name, n |-> n, kind |-> d.kind, w |-> d.w,
                        wrapped |-> d.wrapped, result |-> d.out.err,
                        appended |-> d.out.appended, ran |-> d.out.ran,
                        events |-> d.out.events]
        /\ publicSymbols' = IF d.out.err # OK /\ Has(publicSymbols, name)
                            THEN [k \in DOMAIN publicSymbols \ {name} |->
                                    publicSymbols[k]]
                            ELSE publicSymbols
        /\ UNCHANGED <<registeredTypes, typeDependencies, awaitingDependencies,
                       closures, others,
                       registeredTuples, lastOp, mod, lastGet>>
        /\ UNCHANGED aside

\* engine.CallFunction(ctx, name, arguments...)
CallFunction(name, n, env) ==
    LET d == Dispatch(publicSymbols, name, n, env)
    IN  /\ lastCall' = [name |-> name, n |-> n, kind |-> d.kind, w |-> d.w,
                        wrapped |-> d.wrapped, result |-> d.out.err,
                        appended |-> d.out.appended, ran |-> d.out.ran,
                        events |-> d.out.events]
        /\ UNCHANGED <<registeredTypes, typeDependencies, awaitingDependencies,
                       publicSymbols, closures, others,
                       registeredTuples, lastOp, mod,
                       lastGet>>
        /\ UNCHANGED aside

(***************************************************************************)
(* Spec: the registrations of guest initialization, in every order.        *)
(***************************************************************************)
ArgTypeLists(maxParams) == UNION {[1..n -> Ids] : n \in 1..(maxParams + 1)}

Next ==
    \/ \E rawType \in RawIds, imp \in TypeImports : EmbindRegisterType(rawType, imp)
    \/ \E name \in Names, isAsync \in BOOLEAN, argTypes \in ArgTypeLists(MaxParams) :
         EmbindRegisterFunction(name, argTypes, isAsync)
    \/ \E rawType \in Ids : EmbindRegisterValueArray(rawType)
    \/ \E rawTupleType \in Ids, getterReturnType \in Ids, setterArgumentType \in Ids :
         EmbindRegisterValueArrayElement(rawTupleType, getterReturnType,
                                         setterArgumentType)
    \/ \E rawTupleType \in Ids : EmbindFinalizeValueArray(rawTupleType)

Spec == Init /\ [][Next]_vars

(***************************************************************************)
(* SpecSym: synchronous functions are registered and resolved in every     *)
(* order and called from the host with every argument count; the guest and *)
(* the codecs do not fail.                                                 *)
(***************************************************************************)
CallNames == Names \cup {"unknown"}

NextSym ==
    \/ \E rawType \in Ids, imp \in TypeImports : EmbindRegisterType(rawType, imp)
    \/ \E name \in Names, argTypes \in ArgTypeLists(MaxParams) :
         EmbindRegisterFunction(name, argTypes, FALSE)
    \/ \E name \in CallNames, n \in 0..(MaxParams + 1),
          env \in NoFaultEnvs(MaxParams) : CallFunction(name, n, env)

SpecSym == Init /\ [][NextSym]_vars

(***************************************************************************)
(* SpecCall: the calls of one resolved function of up to MaxCallParams     *)
(* parameters, with every argument count and every failure of the guest    *)
(* and the codecs.  It starts in the state the engine is in after the      *)
(* guest has registered a type at every id and then the function.          *)
(***************************************************************************)
\* type ids are opaque to the engine: the function's argument types take the
\* ids in the order of first use
FirstUseOrder(argTypes) ==
    \A i \in 1..Len(argTypes) :
        \A d \in 1..(argTypes[i] - 1) : \E j \in 1..(i - 1) : argTypes[j] = d

RECURSIVE RegisterEach(_, _, _)
RegisterEach(e, types, rawType) ==
    IF rawType > MaxId THEN e
    ELSE RegisterEach(registerType(e, rawType, types[rawType].type,
                                   types[rawType].options).e,
                      types, rawType + 1)

InitCall ==
    \E types \in [Ids -> TypeImports], name \in Names,
       argTypes \in ArgTypeLists(MaxCallParams) :
        \E e1 \in {RegisterEach(Created, types, 1)} :
        \E e2 \in {whenDependentTypesAreResolved(
                      [e1 EXCEPT !.publicSymbols =
                          exposePublicSymbol(e1.publicSymbols, name, Stub(1),
                                             Len(argTypes) - 1).ps],
                      <<>>, argTypes,
                      [kind |-> "function", name |-> name,
                       publicSymbolArgs |-> Len(argTypes) - 1,
                       isAsync |-> FALSE, elementsLength |-> 0]).e} :
            /\ FirstUseOrder(argTypes)
            /\ registeredTypes = e2.registeredTypes
            /\ typeDependencies = e2.typeDependencies
            /\ awaitingDependencies = e2.awaitingDependencies
            /\ publicSymbols = e2.publicSymbols
            /\ closures = e2.closures
            /\ registeredTuples = EmptyMap
            /\ lastOp = [op |-> "registerFunction", rawType |-> 0, type |-> Nil,
                         options |-> NoOptions, err |-> OK, panicked |-> FALSE]
            /\ lastCall = NoCall
            /\ mod = GuestModule
            /\ lastGet = [mod |-> GuestModule, panicked |-> FALSE]
            /\ emvalEngine = createEmvalEngine
            /\ lastEmval = NoEmval
            /\ second = Created
            /\ lastWire = NoWire
            /\ InitMore

\* the codecs of a call act on the arguments it passes; a call with more
\* arguments than any function takes is refused before a codec runs
NextCall ==
    \E name \in Names, n \in 0..(MaxCallParams + 1) :
        \E env \in Envs(IF n > MaxCallParams THEN 0 ELSE n) :
            CallFunction(name, n, env)

SpecCall == InitCall /\ [][NextCall]_vars

(***************************************************************************)
(* Properties of the type registry and the dependency resolver (Spec).     *)
(***************************************************************************)
Waiters == 1..Len(closures)
Dependencies(w) == 1..Len(closures[w].dependentTypes)
AllRegistered(w) ==
    \A i \in Dependencies(w) : Has(registeredTypes, closures[w].dependentTypes[i])

\* the callback of closure w for dependency i is in the queue of id d
QueuedUnder(w, i, d) ==
    /\ Has(awaitingDependencies, d)
    /\ \E k \in 1..Len(awaitingDependencies[d]) :
          awaitingDependencies[d][k].w = w /\ awaitingDependencies[d][k].myI = i

\* C1: for every call whenDependentTypesAreResolved(T, D, f), f is invoked at
\* most once and only with every id of D registered, and once every id of D
\* is registered f has been invoked exactly once.
C1_ProduceInvokedOnceWhenResolved ==
    \A w \in Waiters :
        /\ closures[w].invoked <= 1
        /\ closures[w].invokedReady
        /\ closures[w].invoked = 1 => AllRegistered(w)
        /\ AllRegistered(w) => closures[w].invoked = 1

\* C2: every callback appended to awaitingDependencies[d] has run exactly
\* once and left the queue, or has not run and is still queued under d.
C2_CallbackRanOrQueued ==
    \A w \in Waiters : \A i \in Dependencies(w) :
        closures[w].queued[i] =>
            \/ /\ closures[w].ran[i] = 1
               /\ \A d \in DOMAIN awaitingDependencies : ~QueuedUnder(w, i, d)
            \/ /\ closures[w].ran[i] = 0
               /\ QueuedUnder(w, i, closures[w].dependentTypes[i])

\* C9: a registerType(r, t, _) that succeeds on an unregistered r stores t
\* under r, and an entry of registeredTypes is never changed or removed, by
\* any import, callback, duplicate registration or call.
C9_RegisteredTypeImmutable ==
    [][/\ ( /\ lastOp'.op = "registerType"
            /\ lastOp'.err = OK
            /\ ~Has(registeredTypes, lastOp'.rawType) )
          => /\ Has(registeredTypes', lastOp'.rawType)
             /\ registeredTypes'[lastOp'.rawType] = lastOp'.type
       /\ \A r \in DOMAIN registeredTypes :
             /\ r \in DOMAIN registeredTypes'
             /\ registeredTypes'[r] = registeredTypes[r]]_vars

\* a duplicate registration with ignoreDuplicateRegistrations succeeded on an
\* id that holds another type than the one passed
C9_Witness ==
    /\ lastOp.op = "registerType"
    /\ lastOp.options.ignoreDuplicateRegistrations
    /\ lastOp.err = OK
    /\ Has(registeredTypes, lastOp.rawType)
    /\ registeredTypes[lastOp.rawType] # lastOp.type

\* C10: registerType on a registered id returns an error without
\* ignoreDuplicateRegistrations and success with it, changes none of
\* registeredTypes, typeDependencies and awaitingDependencies and runs no
\* callback (no closure and no public symbol changes).
C10_DuplicateRegistration ==
    [][(lastOp'.op = "registerType" /\ Has(registeredTypes, lastOp'.rawType)) =>
          /\ lastOp'.err = IF lastOp'.options.ignoreDuplicateRegistrations
                           THEN OK ELSE "ErrTwice"
          /\ UNCHANGED <<registeredTypes, typeDependencies, awaitingDependencies,
                         closures, publicSymbols>>]_vars

\* a duplicate registration was refused while callbacks were queued
C10_Witness ==
    /\ lastOp.op = "registerType"
    /\ lastOp.err = "ErrTwice"
    /\ Has(registeredTypes, lastOp.rawType)
    /\ \E d \in DOMAIN awaitingDependencies : Len(awaitingDependencies[d]) > 0

(***************************************************************************)
(* Properties of the public-symbol table (SpecSym).                        *)
(***************************************************************************)
FunctionWaiters == {w \in Waiters : closures[w].produce.kind = "function"}
FunctionName(w) == closures[w].produce.name
Arity(w) == closures[w].produce.publicSymbolArgs
OnlyRegistration(w) ==
    \A v \in FunctionWaiters \ {w} :
        FunctionName(v) # FunctionName(w) \/ Arity(v) # Arity(w)

\* C3: a function registered with a missing argument type answers a call with
\* its arity by the unbound-types error of its stub while an id is missing,
\* and by its invoker once every id is registered.
C3_StubUntilResolvedThenInvoker ==
    \A w \in FunctionWaiters :
        ( /\ Len(closures[w].unregisteredTypes) > 0
          /\ OnlyRegistration(w)
          /\ lastCall.name = FunctionName(w)
          /\ lastCall.n = Arity(w) )
        => IF AllRegistered(w)
           THEN lastCall.kind = "invoker" /\ lastCall.w = w
           ELSE /\ lastCall.kind = "stub" /\ lastCall.w = w
                /\ lastCall.result = "ErrUnboundTypes"

\* C4: with overloads of pairwise distinct arities, a call with n arguments
\* reaches the overload registered with arity n, and fails when there is none.
C4_OverloadByArity ==
    ( /\ \A w \in FunctionWaiters : OnlyRegistration(w)
      /\ lastCall.result # "none"
      /\ lastCall.name \in Names )
    => IF \E w \in FunctionWaiters :
             FunctionName(w) = lastCall.name /\ Arity(w) = lastCall.n
       THEN \A w \in FunctionWaiters :
               (FunctionName(w) = lastCall.name /\ Arity(w) = lastCall.n)
               => lastCall.kind \in {"stub", "invoker"} /\ lastCall.w = w
       ELSE lastCall.result # OK

\* an implementation that no registration made
Probe == [kind |-> "invoker", w |-> 0, argTypes |-> <<Nil, Nil>>]

\* C5: replacePublicSymbol(name, impl, k) on a symbol with an overload table
\* changes the slot of arity k and nothing else, for every k >= 0; on a symbol
\* without one it replaces the top-level entry.
C5_ReplaceOnlyAritySlot ==
    \A name \in DOMAIN publicSymbols : \A k \in 0..MaxParams :
        LET sym == publicSymbols[name]
            r == replacePublicSymbol(publicSymbols, name, Probe, k)
        IN  /\ r.err = OK
            /\ \A other \in DOMAIN publicSymbols \ {name} :
                   r.ps[other] = publicSymbols[other]
            /\ IF sym.hasTable
               THEN r.ps[name] =
                      [sym EXCEPT !.overloadTable = Put(@, k, Entry(k, Probe))]
               ELSE r.ps[name].fn = Probe /\ ~r.ps[name].hasTable

\* an implementation was exposed for (name, k)
Exposed(name, k) ==
    IF publicSymbols[name].hasTable
    THEN Has(publicSymbols[name].overloadTable, k)
    ELSE publicSymbols[name].argCount = k

\* C6: exposePublicSymbol(name, impl, k) fails when (name, k) was exposed
\* before, with or without an overload table, and leaves the table as it was.
C6_DuplicateExposeFails ==
    \A name \in DOMAIN publicSymbols : \A k \in 0..MaxParams :
        Exposed(name, k) =>
            LET r == exposePublicSymbol(publicSymbols, name, Probe, k)
            IN  r.err # OK /\ r.ps = publicSymbols

(***************************************************************************)
(* Properties of an invoker call (SpecCall).                               *)
(***************************************************************************)
Count(seq, x) == Cardinality({i \in 1..Len(seq) : seq[i] = x})
EachAppendedRanOnce ==
    \A i \in 1..Len(lastCall.appended) :
        Count(lastCall.ran, lastCall.appended[i]) = 1

\* C7: when an invoker call returns successfully, every destructor appended
\* during argument encoding has run exactly once.
C7_DestructorsRunOnSuccess ==
    (lastCall.kind = "invoker" /\ lastCall.result = OK) => EachAppendedRanOnce

\* a call succeeded with a destructor appended for every argument
C7_Witness ==
    /\ lastCall.kind = "invoker"
    /\ lastCall.result = OK
    /\ Len(lastCall.appended) = MaxCallParams

\* C8: when an invoker call fails in the encoding of a later argument, in the
\* guest call or in the decoding of the return value, every destructor
\* appended before has run exactly once.
C8_DestructorsRunOnFailure ==
    ( /\ lastCall.kind = "invoker"
      /\ lastCall.result \in {"ErrEncode", "ErrCall", "ErrDecode"} )
    => EachAppendedRanOnce

(***************************************************************************)
(* SpecId: type registrations with every raw id an int32 can hold, the     *)
(* negative ones and 0 included, while a function waits for its argument   *)
(* types.                                                                  *)
(***************************************************************************)
\* the negative raw ids are -MaxNegId..-1
MaxNegId == 1
SignedIds == (0 - MaxNegId)..MaxId

InitId ==
    \E name \in Names,
       argTypes \in UNION {[1..n -> SignedIds] : n \in 1..(MaxParams + 1)} :
        LET exposed == exposePublicSymbol(Created.publicSymbols, name, Stub(1),
                                          Len(argTypes) - 1)
            produce == [kind |-> "function", name |-> name,
                        publicSymbolArgs |-> Len(argTypes) - 1,
                        isAsync |-> FALSE, elementsLength |-> 0]
            e2 == whenDependentTypesAreResolved(
                    [Created EXCEPT !.publicSymbols = exposed.ps], <<>>, argTypes,
                    produce).e
        IN  /\ registeredTypes = e2.registeredTypes
            /\ typeDependencies = e2.typeDependencies
            /\ awaitingDependencies = e2.awaitingDependencies
            /\ publicSymbols = e2.publicSymbols
            /\ closures = e2.closures
            /\ registeredTuples = EmptyMap
            /\ lastOp = [op |-> "registerFunction", rawType |-> 0, type |-> Nil,
                         options |-> NoOptions, err |-> OK, panicked |-> FALSE]
            /\ lastCall = NoCall
            /\ mod = GuestModule
            /\ lastGet = [mod |-> GuestModule, panicked |-> FALSE]
            /\ emvalEngine = createEmvalEngine
            /\ lastEmval = NoEmval
            /\ second = Created
            /\ lastWire = NoWire
            /\ InitMore

NextId ==
    \E rawType \in SignedIds, imp \in TypeImports : EmbindRegisterType(rawType, imp)

SpecId == InitId /\ [][NextId]_vars

\* C11: registerType fails for every rawId <= 0, zero and negative, and
\* stores no type, removes no dependency entry and runs no callback for it.
C11_NonPositiveIdRejected ==
    [][(lastOp'.op = "registerType" /\ lastOp'.rawType <= 0) =>
          /\ lastOp'.err # OK
          /\ UNCHANGED <<registeredTypes, typeDependencies, awaitingDependencies,
                         closures, publicSymbols>>]_vars

(***************************************************************************)
(* createUnboundTypeError: the ids it lists.  seen is the map shared by    *)
(* the whole traversal.  An id with a typeDependencies entry is not put in *)
(* seen, so a dependency cycle is visited without end: path holds the ids  *)
(* being visited and overflow records that one was entered again.          *)
(***************************************************************************)
\* expanded lists the ids whose dependencies were looped over, in order
Visited(unboundTypes, seen, overflow, expanded) ==
    [unboundTypes |-> unboundTypes, seen |-> seen, overflow |-> overflow,
     expanded |-> expanded]

RECURSIVE checkRegisteredTypeDependencies(_, _, _, _)
RECURSIVE visitDependencies(_, _, _, _, _)

\* the loop over e.typeDependencies[typeToVisit]; the ids it collects are
\* dropped by the return nil that follows it
visitDependencies(e, dependencies, i, seen, path) ==
    IF i > Len(dependencies) THEN Visited(<<>>, seen, FALSE, <<>>)
    ELSE LET r == checkRegisteredTypeDependencies(e, dependencies[i], seen, path)
             v == visitDependencies(e, dependencies, i + 1, r.seen, path)
         IN  IF r.overflow THEN r
             ELSE [v EXCEPT !.expanded = r.expanded \o @]

checkRegisteredTypeDependencies(e, typeToVisit, seen, path) ==
    IF typeToVisit \in seen
    THEN Visited(<<>>, seen, FALSE, <<>>)
    ELSE IF Has(e.registeredTypes, typeToVisit)
    THEN Visited(<<>>, seen, FALSE, <<>>)
    ELSE IF Has(e.typeDependencies, typeToVisit)
    THEN IF typeToVisit \in path
         THEN Visited(<<>>, seen, TRUE, <<typeToVisit>>)
         ELSE LET v == visitDependencies(e, e.typeDependencies[typeToVisit],
                                         1, seen, path \cup {typeToVisit})
              IN  [v EXCEPT !.expanded = <<typeToVisit>> \o @]
    ELSE Visited(<<typeToVisit>>, seen \cup {typeToVisit}, FALSE, <<>>)

\* the loop of createUnboundTypeError over types
RECURSIVE unboundTypesOf(_, _, _, _)
unboundTypesOf(e, types, i, acc) ==
    IF i > Len(types) \/ acc.overflow THEN acc
    ELSE LET r == checkRegisteredTypeDependencies(e, types[i], acc.seen, {})
         IN  unboundTypesOf(e, types, i + 1,
                 Visited(acc.unboundTypes \o r.unboundTypes, r.seen,
                         r.overflow, acc.expanded \o r.expanded))

createUnboundTypeError(e, types) ==
    unboundTypesOf(e, types, 1, Visited(<<>>, {}, FALSE, <<>>))

\* C38: createUnboundTypeError terminates for every content of
\* typeDependencies, also when unregistered ids depend on each other in a
\* cycle or on themselves, and loops over the dependencies of an id at
\* most once in a call
C38_UnboundTypeErrorTerminates ==
    \A w \in FunctionWaiters :
        LET r == createUnboundTypeError(Engine, closures[w].dependentTypes)
        IN  /\ ~r.overflow
            /\ \A i, j \in 1..Len(r.expanded) :
                  r.expanded[i] = r.expanded[j] => i = j

\* the unregistered ids reached from S through typeDependencies
RECURSIVE ReachedFrom(_)
ReachedFrom(S) ==
    LET step == S \cup UNION { {typeDependencies[t][i] : i \in 1..Len(typeDependencies[t])}
                               \ DOMAIN registeredTypes :
                               t \in S \cap DOMAIN typeDependencies }
    IN  IF step = S THEN S ELSE ReachedFrom(step)

\* the still-missing ids reachable from types
StillMissing(types) ==
    ReachedFrom({types[i] : i \in 1..Len(types)} \ DOMAIN registeredTypes)
        \ DOMAIN typeDependencies

\* C12: for the argument types of every registered function,
\* createUnboundTypeError lists exactly the still-missing ids reachable from
\* them through typeDependencies, each once.
C12_UnboundTypesListed ==
    \A w \in FunctionWaiters :
        LET types == closures[w].dependentTypes
            r == createUnboundTypeError(Engine, types)
        IN  /\ ~r.overflow
            /\ {r.unboundTypes[i] : i \in 1..Len(r.unboundTypes)} = StillMissing(types)
            /\ \A i, j \in 1..Len(r.unboundTypes) :
                  r.unboundTypes[i] = r.unboundTypes[j] => i = j

\* C13: whenever registerType returns an error inside a type-registration
\* import (a duplicate id, a non-positive id, an error of a drained
\* callback), the import panics instead of returning to the guest.
C13_RegistrationErrorPanics ==
    (lastOp.op = "registerType" /\ lastOp.err # OK) => lastOp.panicked

(***************************************************************************)
(* SpecMod: one engine in a context that several module instances use.     *)
(* Any of them, or a caller without module, asks for the engine or calls a *)
(* type-registration import; an import whose MustGetEngineFromContext      *)
(* panics does nothing else.                                               *)
(***************************************************************************)
GetEngine(m) ==
    /\ MustGetEngineFromContext(m)
    /\ UNCHANGED <<registeredTypes, typeDependencies, awaitingDependencies,
                   publicSymbols, closures, others,
                   registeredTuples, lastOp, lastCall>>
    /\ UNCHANGED aside

EmbindRegisterTypeFrom(m, rawType, imp) ==
    LET r == registerType(Engine, rawType, imp.type, imp.options)
    IN  /\ MustGetEngineFromContext(m)
        /\ IF mod # NoModule /\ mod # m
           THEN UNCHANGED <<registeredTypes, typeDependencies, awaitingDependencies,
                            publicSymbols, closures, others, lastOp>>
           ELSE /\ SetEngine(r.e)
                /\ Returned("registerType", rawType, imp.type, imp.options, r.err,
                            imp.checksErr /\ r.err # OK)
        /\ UNCHANGED <<registeredTuples, lastCall>>
        /\ UNCHANGED aside

NextMod ==
    \/ \E m \in Modules \cup {NoModule} : GetEngine(m)
    \/ \E m \in Modules \cup {NoModule}, rawType \in Ids, imp \in TypeImports :
          EmbindRegisterTypeFrom(m, rawType, imp)

SpecMod == Init /\ [][NextMod]_vars

\* C14: once the engine is bound to a module M, the bound module never
\* changes, every later MustGetEngineFromContext with another module fails
\* and every one with M succeeds.
C14_BoundModuleFixed ==
    [][mod # NoModule =>
          /\ mod' = mod
          /\ lastGet'.panicked <=> lastGet'.mod # mod]_vars

\* a call with another module failed on an engine that the guest had bound
\* and registered its types on
C14_Witness ==
    /\ mod = GuestModule
    /\ lastGet.mod \in Modules \ {GuestModule}
    /\ lastGet.panicked
    /\ DOMAIN registeredTypes = Ids

(***************************************************************************)
(* SpecEmval: the emval imports on an engine whose guest has registered    *)
(* emscripten::val at every id; _emval_take_value is called with a         *)
(* registered id and with the unregistered id 0.                           *)
(***************************************************************************)
\* registeredType.ReadValueFromPointer failed
ReadError == "read-error"

LiveHandles == {h \in DOMAIN emvalEngine.slots : isLive(emvalEngine, h)}

EmvalDone(op, handle, value, err) ==
    lastEmval' = [op |-> op, handle |-> handle, value |-> value, err |-> err,
                  wasLive |-> isLive(emvalEngine, handle)]

TableUnchanged ==
    UNCHANGED <<registeredTypes, typeDependencies, awaitingDependencies,
                publicSymbols, closures, others,
                registeredTuples, lastOp, lastCall,
                second, lastWire, more>>

\* _emval_take_value(type, arg); value is what ReadValueFromPointer reads
EmvalTakeValue(rawType, value) ==
    LET r == toHandle(emvalEngine, value)
    IN  /\ MustGetEngineFromContext(GuestModule)
        /\ \/ Cardinality(LiveHandles) < MaxHandles
           \/ r.id \in 1..ReservedHandles
        /\ IF ~Has(registeredTypes, rawType)
           THEN /\ EmvalDone("takeValue", 0, value, "PanicUnknownType")
                /\ UNCHANGED emvalEngine
           ELSE IF value = ReadError
           THEN /\ EmvalDone("takeValue", 0, value, "PanicRead")
                /\ UNCHANGED emvalEngine
           ELSE /\ EmvalDone("takeValue", r.id, value, OK)
                /\ emvalEngine' = r.em
        /\ TableUnchanged

\* _emval_incref(handle)
EmvalIncref(handle) ==
    LET r == incref(emvalEngine, handle)
    IN  /\ MustGetEngineFromContext(GuestModule)
        /\ isLive(emvalEngine, handle) => emvalEngine.slots[handle].increfs < MaxIncrefs
        /\ emvalEngine' = r.em
        /\ EmvalDone("incref", handle, "", r.err)
        /\ TableUnchanged

\* _emval_decref(handle)
EmvalDecref(handle) ==
    LET r == decref(emvalEngine, handle)
    IN  /\ MustGetEngineFromContext(GuestModule)
        /\ emvalEngine' = r.em
        /\ EmvalDone("decref", handle, "", r.err)
        /\ TableUnchanged

\* the toValue(id) lookup that _emval_as, _emval_new, _emval_get_property, ...
\* start with; they panic on its error
EmvalToValue(handle) ==
    LET r == toValue(emvalEngine, handle)
    IN  /\ MustGetEngineFromContext(GuestModule)
        /\ UNCHANGED emvalEngine
        /\ EmvalDone("toValue", handle, r.value, r.err)
        /\ TableUnchanged

InitEmval ==
    \E types \in [Ids -> {imp \in TypeImports : imp.type = emvalType}] :
        LET e1 == RegisterEach(Created, types, 1)
        IN  /\ registeredTypes = e1.registeredTypes
            /\ typeDependencies = e1.typeDependencies
            /\ awaitingDependencies = e1.awaitingDependencies
            /\ publicSymbols = e1.publicSymbols
            /\ closures = e1.closures
            /\ registeredTuples = EmptyMap
            /\ lastOp = [op |-> "registerType", rawType |-> MaxId,
                         type |-> types[MaxId].type,
                         options |-> types[MaxId].options, err |-> OK,
                         panicked |-> FALSE]
            /\ lastCall = NoCall
            /\ mod = GuestModule
            /\ lastGet = [mod |-> GuestModule, panicked |-> FALSE]
            /\ emvalEngine = createEmvalEngine
            /\ lastEmval = NoEmval
            /\ second = Created
            /\ lastWire = NoWire
            /\ InitMore

NextEmval ==
    \/ \E rawType \in {0, MaxId}, value \in HostValues \cup {ReadError} :
          EmvalTakeValue(rawType, value)
    \/ \E handle \in Handles : EmvalIncref(handle)
    \/ \E handle \in Handles : EmvalDecref(handle)
    \/ \E handle \in Handles : EmvalToValue(handle)

SpecEmval == InitEmval /\ [][NextEmval]_vars

AllocatedHandles == {h \in DOMAIN emvalEngine.slots : h > ReservedHandles}

\* C15: a handle made for a non-sentinel value starts with refcount 1; its
\* slot is freed exactly when its decrefs first exceed its increfs; its
\* refcount is never below zero; incref, decref and toValue on a freed handle
\* fail.
C15_RefcountLifecycle ==
    /\ \A h \in AllocatedHandles :
          LET slot == emvalEngine.slots[h]
          IN  /\ slot.refcount >= 0
              /\ slot.refcount = 1 + slot.increfs - slot.decrefs
              /\ slot.live <=> slot.decrefs <= slot.increfs
              /\ ~slot.live => slot.decrefs = slot.increfs + 1
    /\ ( /\ lastEmval.op = "takeValue"
         /\ lastEmval.err = OK
         /\ lastEmval.handle > ReservedHandles )
       => /\ isLive(emvalEngine, lastEmval.handle)
          /\ emvalEngine.slots[lastEmval.handle].refcount = 1
    /\ ( /\ lastEmval.op \in {"incref", "decref", "toValue"}
         /\ lastEmval.handle \in AllocatedHandles
         /\ ~lastEmval.wasLive )
       => lastEmval.err # OK

\* a handle was incremented MaxIncrefs times and freed, and the decref after
\* that failed
C15_Witness ==
    /\ lastEmval.op = "decref"
    /\ lastEmval.err # OK
    /\ lastEmval.handle \in AllocatedHandles
    /\ emvalEngine.slots[lastEmval.handle].increfs = MaxIncrefs
    /\ emvalEngine.slots[lastEmval.handle].decrefs = MaxIncrefs + 1

\* C16: the id toHandle returns for a non-sentinel value is not 0, not a
\* reserved id and not the id of a handle that is live.
C16_FreshHandleId ==
    ( /\ lastEmval.op = "takeValue"
      /\ lastEmval.err = OK
      /\ \A h \in 1..ReservedHandles : Sentinels[h] # lastEmval.value )
    => /\ lastEmval.handle > ReservedHandles
       /\ ~lastEmval.wasLive
       /\ isLive(emvalEngine, lastEmval.handle)

\* the first slot was freed and given out again while the slot after it was
\* live
C16_Witness ==
    /\ lastEmval.op = "takeValue"
    /\ lastEmval.err = OK
    /\ lastEmval.handle = ReservedHandles + 1
    /\ isLive(emvalEngine, ReservedHandles + 2)

(***************************************************************************)
(* SpecBool: bool types registered with every pair of sentinel words, and  *)
(* their FromWireType and ToWireType applied to every word and value.  An  *)
(* int32 has IntBits bits here and a wire word (uint64) twice as many.     *)
(***************************************************************************)
IntBits == 2
Words == 0..(2^(2 * IntBits) - 1)
\* api.EncodeI32: the int32 zero-extended to a word
EncodeI32(v) == v % 2^IntBits
\* api.DecodeI32: the low half of the word as a signed int32
DecodeI32(word) ==
    LET low == word % 2^IntBits
    IN  IF low >= 2^(IntBits - 1) THEN low - 2^IntBits ELSE low

\* the boolType _embind_register_bool makes; trueValue and falseValue are the
\* words on the stack
boolType(trueValue, falseValue) ==
    [name |-> "bool", destructor |-> FALSE, elements |-> <<>>,
     trueValue |-> trueValue, falseValue |-> falseValue,
     trueVal |-> DecodeI32(trueValue), falseVal |-> DecodeI32(falseValue)]

\* a Go bool as the any a conversion takes or returns
GoBool(b) == IF b THEN "true" ELSE "false"
GoBools == {"true", "false"}

\* FromWireType comparing the word as a signed int32
FromWireType_Signed(bt, value) == [out |-> GoBool(DecodeI32(value) > 0), err |-> OK]

FromWireType(bt, value) == [out |-> GoBool(value > 0), err |-> OK]

\* ToWireType returning 1 and 0 whatever words were registered
ToWireType_OneZero(bt, o) ==
    IF o \notin GoBools THEN [out |-> 0, err |-> "ErrNotBool"]
    ELSE IF o = "true" THEN [out |-> 1, err |-> OK]
    ELSE [out |-> 0, err |-> OK]

ToWireType(bt, o) ==
    IF o \notin GoBools THEN [out |-> 0, err |-> "ErrNotBool"]
    ELSE IF o = "true" THEN [out |-> EncodeI32(bt.trueVal), err |-> OK]
    ELSE [out |-> EncodeI32(bt.falseVal), err |-> OK]

BoolUnchanged ==
    UNCHANGED <<registeredTypes, typeDependencies, awaitingDependencies,
                publicSymbols, closures, others,
                registeredTuples, lastOp, lastCall,
                mod, lastGet, emvalEngine, lastEmval, second, more>>

\* _embind_register_bool(rawType, name, size, trueValue, falseValue): the
\* error of registerType is not looked at
EmbindRegisterBool(rawType, trueValue, falseValue) ==
    LET bt == boolType(trueValue, falseValue)
        r == registerType(Engine, rawType, bt, NoOptions)
    IN  /\ MustGetEngineFromContext(GuestModule)
        /\ SetEngine(r.e)
        /\ Returned("registerType", rawType, bt, NoOptions, r.err, FALSE)
        /\ UNCHANGED <<registeredTuples, lastCall, emvalEngine, lastEmval, second,
                       lastWire, more>>

IsBool(rawType) ==
    Has(registeredTypes, rawType) /\ registeredTypes[rawType].name = "bool"

\* FromWireType of the bool type registered under rawType
BoolFromWireType(rawType, value) ==
    LET r == FromWireType(registeredTypes[rawType], value)
    IN  /\ IsBool(rawType)
        /\ lastWire' = [op |-> "FromWireType", rawType |-> rawType, o |-> r.out,
                        word |-> value, back |-> "", err |-> r.err]
        /\ BoolUnchanged

\* ToWireType of the bool type registered under rawType
BoolToWireType(rawType, o) ==
    LET r == ToWireType(registeredTypes[rawType], o)
    IN  /\ IsBool(rawType)
        /\ lastWire' = [op |-> "ToWireType", rawType |-> rawType, o |-> o,
                        word |-> r.out, back |-> "", err |-> r.err]
        /\ BoolUnchanged

\* ToWireType and then FromWireType of the word it returned
BoolRoundTrip(rawType, v) ==
    LET w == ToWireType(registeredTypes[rawType], v)
        r == FromWireType(registeredTypes[rawType], w.out)
    IN  /\ IsBool(rawType)
        /\ lastWire' = [op |-> "RoundTrip", rawType |-> rawType, o |-> v,
                        word |-> w.out, back |-> r.out,
                        err |-> IF w.err # OK THEN w.err ELSE r.err]
        /\ BoolUnchanged

\* the words an i32 parameter can hold
SentinelWords == 0..(2^IntBits - 1)

NextBool ==
    \/ \E trueValue \in SentinelWords, falseValue \in SentinelWords :
          EmbindRegisterBool(MaxId, trueValue, falseValue)
    \/ \E value \in Words : BoolFromWireType(MaxId, value)
    \/ \E o \in GoBools \cup {"x"} : BoolToWireType(MaxId, o)
    \/ \E v \in GoBools : BoolRoundTrip(MaxId, v)

SpecBool == Init /\ [][NextBool]_vars

\* C17: FromWireType(w) is true exactly when the word w is non-zero, and
\* ToWireType(true) and ToWireType(false) are the registered trueValue and
\* falseValue words.
C17_BoolWire ==
    /\ lastWire.op = "FromWireType" =>
          lastWire.err = OK /\ lastWire.o = GoBool(lastWire.word # 0)
    /\ (lastWire.op = "ToWireType" /\ lastWire.o \in GoBools) =>
          /\ lastWire.err = OK
          /\ lastWire.word = IF lastWire.o = "true"
                             THEN registeredTypes[lastWire.rawType].trueValue
                             ELSE registeredTypes[lastWire.rawType].falseValue

\* true was encoded by a type whose trueValue is a negative int32
C17_Witness ==
    /\ lastWire.op = "ToWireType"
    /\ lastWire.o = "true"
    /\ registeredTypes[lastWire.rawType].trueVal < 0
    /\ lastWire.word # 0

\* C18: for every registered bool type, with any trueValue and falseValue,
\* FromWireType(ToWireType(v)) = v for v = true and v = false.
C18_BoolRoundTrip ==
    lastWire.op = "RoundTrip" => (lastWire.err = OK /\ lastWire.back = lastWire.o)

\* C18 amended: the round trip holds for a bool type registered with a
\* non-zero trueValue and a zero falseValue.
C18_BoolRoundTripSentinels ==
    ( /\ lastWire.op = "RoundTrip"
      /\ registeredTypes[lastWire.rawType].trueVal # 0
      /\ registeredTypes[lastWire.rawType].falseVal = 0 )
    => (lastWire.err = OK /\ lastWire.back = lastWire.o)

\* true made the round trip through a negative trueValue
C18_Witness ==
    /\ lastWire.op = "RoundTrip"
    /\ lastWire.o = "true"
    /\ lastWire.back = "true"
    /\ registeredTypes[lastWire.rawType].trueVal < 0
    /\ registeredTypes[lastWire.rawType].falseVal = 0

(***************************************************************************)
(* SpecFail: the registrations of SpecSym, and host calls that fail in     *)
(* every way: an unknown name, a wrong argument count, no overload of the  *)
(* arity, unbound types, and every failure of the guest and the codecs.    *)
(***************************************************************************)
\* the import of a type that is encoded, decoded and destructed
FailImports == {imp \in TypeImports : imp.type = stdStringType}

NextFail ==
    \/ \E rawType \in Ids, imp \in FailImports : EmbindRegisterType(rawType, imp)
    \/ \E name \in Names, argTypes \in ArgTypeLists(MaxParams) :
         EmbindRegisterFunction(name, argTypes, FALSE)
    \/ \E name \in CallNames, n \in 0..(MaxParams + 1) :
         \E env \in Envs(IF n > MaxParams THEN 0 ELSE n) : CallFunction(name, n, env)

SpecFail == Init /\ [][NextFail]_vars

\* the ways a call fails
CallErrors == {"ErrNoSymbol", "ErrArgCount", "ErrArity", "ErrUnboundTypes",
               "ErrEncode", "ErrCall", "ErrDestructor", "ErrDecode"}

\* C19: a CallFunction that fails leaves publicSymbols, registeredTypes,
\* typeDependencies and awaitingDependencies unchanged, and every call made
\* after it has the outcome it would have had without the failed call.
C19_FailedCallFrame ==
    [][lastCall'.result \in CallErrors =>
          /\ UNCHANGED <<publicSymbols, registeredTypes, typeDependencies,
                         awaitingDependencies>>
          /\ \A name \in CallNames, n \in 0..(MaxParams + 1) :
               \A env \in Envs(IF n > MaxParams THEN 0 ELSE n) :
                   Dispatch(publicSymbols', name, n, env)
                     = Dispatch(publicSymbols, name, n, env)]_vars

\* the guest failed to decode the result of a call, and the symbol called is
\* still exposed with the invoker the call ran
C19_Witness ==
    /\ lastCall.result = "ErrDecode"
    /\ Has(publicSymbols, lastCall.name)
    /\ publicSymbols[lastCall.name].fn.kind = "invoker"

(***************************************************************************)
(* SpecTwo: two engines made by CreateEngine, each attached to the context *)
(* of its own module.  The variables hold the tables of the first engine   *)
(* and `second` those of the other; registrations and calls are made on    *)
(* either, in every order.                                                 *)
(***************************************************************************)
FirstEngine == 1
SecondEngine == 2
Engines == {FirstEngine, SecondEngine}
\* the module in whose context the second engine is
SecondModule == 2

\* the engine a context carries
EngineOf(which) ==
    IF which = FirstEngine THEN Engine ELSE [second EXCEPT !.fired = <<>>]

\* engines that keep their registered types in one map of the package
StoreEngine_SharedTypes(which, e) ==
    IF which = FirstEngine
    THEN /\ SetEngine(e)
         /\ second' = [second EXCEPT !.registeredTypes = e.registeredTypes]
    ELSE /\ second' = e
         /\ registeredTypes' = e.registeredTypes
         /\ UNCHANGED <<typeDependencies, awaitingDependencies, publicSymbols,
                        closures, others>>

\* an import or a call assigns the maps of the engine it was given; the maps
\* of another engine are other maps, made by its own CreateEngine
StoreEngine(which, e) ==
    IF which = FirstEngine
    THEN /\ SetEngine(e)
         /\ second' = second
    ELSE /\ second' = e
         /\ UNCHANGED <<registeredTypes, typeDependencies, awaitingDependencies,
                        publicSymbols, closures, others>>

\* MustGetEngineFromContext in the import of either module
GetEngineOf(which) ==
    IF which = FirstEngine
    THEN MustGetEngineFromContext(GuestModule)
    ELSE /\ mod' = mod
         /\ lastGet' = [mod |-> SecondModule, panicked |-> FALSE]

\* one call of registerType, by an import of the module of engine `which`
RegisterTypeOn(which, rawType, imp) ==
    LET r == registerType(EngineOf(which), rawType, imp.type, imp.options)
    IN  /\ StoreEngine(which, r.e)
        /\ Returned("registerType", rawType, imp.type, imp.options, r.err,
                    imp.checksErr /\ r.err # OK)
        /\ lastCall' = NoCall
        /\ GetEngineOf(which)
        /\ UNCHANGED <<registeredTuples, emvalEngine, lastEmval, lastWire, more>>

\* _embind_register_function in the module of engine `which`: the symbol is
\* exposed with a stub and replaced once the argument types are registered
RegisterFunctionOn(which, name, argTypes) ==
    LET e == EngineOf(which)
        publicSymbolArgs == Len(argTypes) - 1
        w == Len(e.closures) + 1
        exposed == exposePublicSymbol(e.publicSymbols, name, Stub(w),
                                      publicSymbolArgs)
        e1 == [e EXCEPT !.publicSymbols = exposed.ps]
        produce == [kind |-> "function", name |-> name,
                    publicSymbolArgs |-> publicSymbolArgs, isAsync |-> FALSE,
                    elementsLength |-> 0]
        r == IF exposed.err # OK THEN Res(e, exposed.err)
             ELSE whenDependentTypesAreResolved(e1, <<>>, argTypes, produce)
    IN  /\ Len(e.closures) < MaxWaiters
        /\ StoreEngine(which, r.e)
        /\ Returned("registerFunction", 0, Nil, NoOptions, r.err, r.err # OK)
        /\ lastCall' = NoCall
        /\ GetEngineOf(which)
        /\ UNCHANGED <<registeredTuples, emvalEngine, lastEmval, lastWire, more>>

\* the engine as it is, with the callbacks its last import ran
Stored(which) ==
    IF which = FirstEngine THEN [Engine EXCEPT !.fired = fired] ELSE second

\* CallFunction on engine `which`
CallFunctionOn(which, name, n, env) ==
    LET d == Dispatch(EngineOf(which).publicSymbols, name, n, env)
    IN  /\ lastCall' = [name |-> name, n |-> n, kind |-> d.kind, w |-> d.w,
                        wrapped |-> d.wrapped, result |-> d.out.err,
                        appended |-> d.out.appended, ran |-> d.out.ran,
                        events |-> d.out.events]
        /\ StoreEngine(which, Stored(which))
        /\ UNCHANGED <<registeredTuples, lastOp, mod, lastGet, emvalEngine,
                       lastEmval, lastWire, more>>

\* both modules use the same type id
SharedId == 1

NextTwo ==
    \/ \E which \in Engines, imp \in FailImports :
         RegisterTypeOn(which, SharedId, imp)
    \/ \E which \in Engines, name \in Names,
          argTypes \in UNION {[1..n -> {SharedId}] : n \in 1..(MaxParams + 1)} :
         RegisterFunctionOn(which, name, argTypes)
    \/ \E which \in Engines, name \in Names, n \in 0..MaxParams,
          env \in NoFaultEnvs(MaxParams) : CallFunctionOn(which, name, n, env)

SpecTwo == Init /\ [][NextTwo]_vars

\* what every call on an engine with these public symbols returns
Outcomes(ps) ==
    [c \in Names \X (0..MaxParams) |->
        Dispatch(ps, c[1], c[2], CHOOSE env \in NoFaultEnvs(MaxParams) : TRUE)]

FirstUnchanged ==
    /\ UNCHANGED <<registeredTypes, typeDependencies, awaitingDependencies,
                   publicSymbols, closures>>
    /\ Outcomes(publicSymbols') = Outcomes(publicSymbols)

SecondUnchanged ==
    /\ second' = second
    /\ Outcomes(second'.publicSymbols) = Outcomes(second.publicSymbols)

\* C20: two engines made by CreateEngine share no state: a registration, an
\* exposure, a replacement or a call on one leaves every table of the other
\* and the outcome of every call on the other unchanged.
C20_EnginesShareNothing ==
    [][/\ (lastCall' = NoCall /\ lastGet'.mod = GuestModule) => SecondUnchanged
       /\ (lastCall' = NoCall /\ lastGet'.mod = SecondModule) => FirstUnchanged
       /\ lastCall' # NoCall => (FirstUnchanged /\ SecondUnchanged)]_vars

\* the same id and the same name are registered in both engines, resolved
\* in one and waiting in the other
C20_Witness ==
    /\ Has(registeredTypes, SharedId)
    /\ ~Has(second.registeredTypes, SharedId)
    /\ \E name \in Names :
         /\ Has(publicSymbols, name) /\ publicSymbols[name].fn.kind = "invoker"
         /\ Has(second.publicSymbols, name)
         /\ second.publicSymbols[name].fn.kind = "stub"

(***************************************************************************)
(* SpecCaller: _emval_get_method_caller with every list of argument types, *)
(* in an engine where the guest has registered types under the names of    *)
(* CallerNames.  A type name is whatever string the guest passed.          *)
(***************************************************************************)
MaxCallers == 3
MaxCallerArgs == 2
CallerNames == <<"a", "b", "a_b">>
CallerIds == 1..Len(CallerNames)
UnregisteredId == Len(CallerNames) + 1

namedType(name) == [name |-> name, destructor |-> FALSE, elements |-> <<>>]

\* engine.requireRegisteredType(ctx, rawType, humanName)
requireRegisteredType(types, rawType) ==
    IF Has(types, rawType) THEN [type |-> types[rawType], err |-> OK]
    ELSE [type |-> Nil, err |-> "ErrUnboundTypes"]

\* strings.Join(names, sep)
RECURSIVE Join(_, _)
Join(names, sep) ==
    IF names = <<>> THEN ""
    ELSE IF Len(names) = 1 THEN names[1]
    ELSE names[1] \o sep \o Join(Tail(names), sep)

\* typeNames[0] + "_$" + strings.Join(typeNames[1:], "_") + "$"
signatureName(typeNames) ==
    typeNames[1] \o "_$" \o Join(Tail(typeNames), "_") \o "$"

\* _emval_get_method_caller(argCount, argTypes): the ids read from memory
EmvalGetMethodCaller(argTypes) ==
    LET required == [i \in 1..Len(argTypes) |->
                        requireRegisteredType(registeredTypes, argTypes[i])]
        typeNames == [i \in 1..Len(argTypes) |-> required[i].type.name]
        name == signatureName(typeNames)
        known == Has(emvalMethods.registeredMethodIds, name)
        newID == emvalMethods.registeredMethodCount
        id == IF known THEN emvalMethods.registeredMethodIds[name] ELSE newID
    IN  /\ MustGetEngineFromContext(GuestModule)
        /\ IF \E i \in 1..Len(argTypes) : required[i].err # OK
           THEN /\ lastCaller' = [lastCaller EXCEPT !.op = "panicked",
                                                    !.names = <<>>,
                                                    !.fresh = FALSE]
                /\ UNCHANGED emvalMethods
           ELSE /\ known \/ emvalMethods.registeredMethodCount < MaxCallers
                /\ emvalMethods' =
                     IF known THEN emvalMethods
                     ELSE [registeredMethodIds |->
                              Put(emvalMethods.registeredMethodIds, name, newID),
                           registeredMethods |->
                              Put(emvalMethods.registeredMethods, newID,
                                  [id |-> newID, argTypes |-> argTypes,
                                   name |-> name]),
                           registeredMethodCount |-> newID + 1]
                /\ lastCaller' =
                     [op |-> "returned", names |-> typeNames, id |-> id,
                      fresh |-> ~Has(lastCaller.seen, typeNames),
                      seen |-> IF Has(lastCaller.seen, typeNames)
                               THEN lastCaller.seen
                               ELSE Put(lastCaller.seen, typeNames, id)]
        /\ UNCHANGED <<registeredTypes, typeDependencies, awaitingDependencies,
                       publicSymbols, closures, others,
                       registeredTuples, lastOp, lastCall, cxa,
                       registeredEnums, lastEnum,
                       emvalEngine, lastEmval, second, lastWire>>

\* a return type and up to MaxCallerArgs argument types
CallerArgTypes ==
    {argTypes \in UNION {[1..n -> CallerIds \cup {UnregisteredId}] :
                            n \in 1..(MaxCallerArgs + 1)} : argTypes[1] = 1}

\* the state after the guest registered a type under each of CallerNames
InitCaller ==
    /\ registeredTypes = [rawType \in CallerIds |-> namedType(CallerNames[rawType])]
    /\ typeDependencies = EmptyMap
    /\ awaitingDependencies = EmptyMap
    /\ publicSymbols = EmptyMap
    /\ closures = <<>>
    /\ registeredTuples = EmptyMap
    /\ lastOp = [op |-> "registerType", rawType |-> Len(CallerNames),
                 type |-> namedType(CallerNames[Len(CallerNames)]),
                 options |-> NoOptions, err |-> OK, panicked |-> FALSE]
    /\ lastCall = NoCall
    /\ mod = GuestModule
    /\ lastGet = [mod |-> GuestModule, panicked |-> FALSE]
    /\ emvalEngine = createEmvalEngine
    /\ lastEmval = NoEmval
    /\ second = Created
    /\ lastWire = NoWire
    /\ InitMore

NextCaller == \E argTypes \in CallerArgTypes : EmvalGetMethodCaller(argTypes)

SpecCaller == InitCaller /\ [][NextCaller]_vars

\* C21: two calls with equal type-name sequences return the same id; a
\* sequence not seen before gets a fresh id greater than every id returned
\* earlier; no id is returned for two sequences; and there are as many stored
\* callers as sequences seen.
C21_MethodCallerIds ==
    /\ lastCaller.op = "returned" =>
          /\ lastCaller.id = lastCaller.seen[lastCaller.names]
          /\ lastCaller.fresh =>
                \A other \in DOMAIN lastCaller.seen \ {lastCaller.names} :
                    lastCaller.seen[other] < lastCaller.id
    /\ \A s1 \in DOMAIN lastCaller.seen, s2 \in DOMAIN lastCaller.seen :
          lastCaller.seen[s1] = lastCaller.seen[s2] => s1 = s2
    /\ Cardinality(DOMAIN emvalMethods.registeredMethods)
         = Cardinality(DOMAIN lastCaller.seen)

(***************************************************************************)
(* SpecClass: a class and a class derived from it are registered, in       *)
(* either order, each under its three type ids.                            *)
(***************************************************************************)
\* the id of the type of every constructor parameter
ArgId == 7
MaxClassWaiters == 4
MaxCtorParams == 2

ClassDecls ==
    { [name |-> "Base", rawType |-> 1, rawPointerType |-> 2,
       rawConstPointerType |-> 3, baseClassRawType |-> 0],
      [name |-> "Derived", rawType |-> 4, rawPointerType |-> 5,
       rawConstPointerType |-> 6, baseClassRawType |-> 1] }

ClassIdsOf(c) == <<c.rawType, c.rawPointerType, c.rawConstPointerType>>

\* _embind_register_class(rawType, rawPointerType, rawConstPointerType,
\* baseClassRawType, ..., name, ...): the class symbol is exposed with no
\* argument count
EmbindRegisterClass(c) ==
    LET w == Len(closures) + 1
        exposed == exposePublicSymbol(publicSymbols, c.name, Stub(w), 0)
        e1 == [Engine EXCEPT !.publicSymbols = exposed.ps]
        dependentTypes == IF c.baseClassRawType > 0 THEN <<c.baseClassRawType>>
                          ELSE <<>>
        produce == [kind |-> "class", name |-> c.name, rawType |-> c.rawType,
                    baseClassRawType |-> c.baseClassRawType,
                    publicSymbolArgs |-> 0, isAsync |-> FALSE,
                    elementsLength |-> 0]
        r == IF exposed.err # OK THEN Res(Engine, exposed.err)
             ELSE whenDependentTypesAreResolved(e1, ClassIdsOf(c), dependentTypes,
                                                produce)
    IN  /\ Len(closures) < MaxClassWaiters
        /\ SetEngine(r.e)
        /\ Returned("registerClass", c.rawType, Nil, NoOptions, r.err, r.err # OK)
        /\ UNCHANGED registeredTuples
        /\ lastCall' = NoCall
        /\ MustGetEngineFromContext(GuestModule)
        /\ UNCHANGED aside

\* _embind_register_class_constructor(rawClassType, argCount,
\* rawArgTypesAddr, ...): rawArgTypes is the return type and the parameters
EmbindRegisterClassConstructor(rawClassType, rawArgTypes) ==
    LET produce == [kind |-> "constructor", argCount |-> Len(rawArgTypes),
                    rawArgTypes |-> rawArgTypes, name |-> "constructor",
                    publicSymbolArgs |-> Len(rawArgTypes) - 1, isAsync |-> FALSE,
                    elementsLength |-> 0]
        r == whenDependentTypesAreResolved(Engine, <<>>, <<rawClassType>>, produce)
    IN  /\ Len(closures) + 1 < MaxClassWaiters
        /\ SetEngine(r.e)
        /\ Returned("registerClassConstructor", rawClassType, Nil, NoOptions, r.err,
                    r.err # OK)
        /\ UNCHANGED registeredTuples
        /\ lastCall' = NoCall
        /\ MustGetEngineFromContext(GuestModule)
        /\ UNCHANGED aside

\* the function _embind_register_class puts in the class symbol: it looks the
\* constructor up by len(arguments) and calls fn(ctx, mod, this, arguments)
callConstructor(e, fn, n, env) ==
    LET class == e.registeredClasses[fn.className]
        failed(err) == [kind |-> "none", w |-> 0, wrapped |-> FALSE,
                        out |-> [err |-> err, appended |-> <<>>, ran |-> <<>>,
                                 events |-> <<>>]]
    IN  IF ~class.hasConstructors THEN failed("ErrNoConstructor")
        ELSE IF ~Has(class.constructors, n) THEN failed("ErrArity")
        ELSE callFn(class.constructors[n], WrappedArgumentCount, TRUE, env)

\* engine.CallFunction(ctx, name, arguments...) on a class symbol
CallClassSymbol(name, n, env) ==
    LET d == IF Has(publicSymbols, name)
                /\ publicSymbols[name].fn.kind = "constructor"
             THEN callConstructor(Engine, publicSymbols[name].fn, n, env)
             ELSE Dispatch(publicSymbols, name, n, env)
    IN  /\ lastCall' = [name |-> name, n |-> n, kind |-> d.kind, w |-> d.w,
                        wrapped |-> d.wrapped, result |-> d.out.err,
                        appended |-> d.out.appended, ran |-> d.out.ran,
                        events |-> d.out.events]
        /\ UNCHANGED <<registeredTypes, typeDependencies, awaitingDependencies,
                       publicSymbols, closures, others, registeredTuples, lastOp,
                       mod, lastGet>>
        /\ UNCHANGED aside

\* a constructor returns a pointer to its class
CtorArgTypes(c) ==
    {<<c.rawPointerType>> \o [i \in 1..n |-> ArgId] : n \in 0..MaxCtorParams}

NextClass ==
    \/ \E c \in ClassDecls : EmbindRegisterClass(c)
    \/ \E c \in ClassDecls : \E rawArgTypes \in CtorArgTypes(c) :
          EmbindRegisterClassConstructor(c.rawType, rawArgTypes)
    \/ \E imp \in FailImports : EmbindRegisterType(ArgId, imp)
    \/ \E c \in ClassDecls, n \in 0..MaxCtorParams, env \in NoFaultEnvs(MaxCtorParams) :
          CallClassSymbol(c.name, n, env)

SpecClass == Init /\ [][NextClass]_vars

\* _embind_register_class was called for c
ClassRegistered(c) == \E w \in 1..Len(closures) : closures[w].myTypes = ClassIdsOf(c)
BaseResolved(c) == c.baseClassRawType > 0 => Has(registeredTypes, c.baseClassRawType)
AllThree(c) ==
    /\ \A i \in 1..3 : Has(registeredTypes, ClassIdsOf(c)[i])
    /\ \A i \in 1..3 :
         LET t == registeredTypes[ClassIdsOf(c)[i]]
         IN  /\ IsPointerType(t)
             /\ t.registeredClass = c.name
             /\ t.isReference = (i = 1)
             /\ t.isConst = (i = 3)
    /\ Has(registeredClasses, c.name)

\* C22: none of the three ids of a class is registered while its base class
\* id is unregistered; once the class is registered and its base resolved the
\* three ids are registered, and whenever one of them is registered all three
\* are: the by-reference, the pointer and the const-pointer converter of the
\* same class record.
C22_ClassConverters ==
    \A c \in ClassDecls :
        /\ ~BaseResolved(c) => \A i \in 1..3 : ~Has(registeredTypes, ClassIdsOf(c)[i])
        /\ (\E i \in 1..3 : Has(registeredTypes, ClassIdsOf(c)[i])) => AllThree(c)
        /\ (ClassRegistered(c) /\ BaseResolved(c)) => AllThree(c)

(***************************************************************************)
(* SpecProp: a class, its properties with and without a setter, the type   *)
(* of the properties, and attempts to set them, in every order.            *)
(***************************************************************************)
\* _embind_register_class_property(classType, fieldName, getterReturnType,
\* ..., setterArgumentType, ..., setter, ...)
EmbindRegisterClassProperty(classType, fieldName, getterReturnType, setterArgumentType, setter) ==
    LET produce == [kind |-> "property", fieldName |-> fieldName,
                    getterReturnType |-> getterReturnType,
                    setterArgumentType |-> setterArgumentType, setter |-> setter,
                    name |-> fieldName, publicSymbolArgs |-> 0, isAsync |-> FALSE,
                    elementsLength |-> 0]
        r == whenDependentTypesAreResolved(Engine, <<>>, <<classType>>, produce)
    IN  /\ Len(closures) + 1 < MaxClassWaiters
        /\ SetEngine(r.e)
        /\ Returned("registerClassProperty", classType, Nil, NoOptions, r.err,
                    r.err # OK)
        /\ UNCHANGED registeredTuples
        /\ lastCall' = NoCall
        /\ MustGetEngineFromContext(GuestModule)
        /\ UNCHANGED aside

\* what calling desc.set(ctx, mod, this, v) gives: the error of the closure
\* assigned, and the panic of Go for the call of a nil function
callSet(desc) ==
    IF desc.set = "nil" THEN "PanicNilFunction"
    ELSE IF desc.set = "readOnly" THEN "ErrReadOnly"
    ELSE IF desc.set = "unbound" THEN "ErrUnboundTypes"
    ELSE OK

\* an attempt to set property fieldName of an instance of the class
SetProperty(className, fieldName) ==
    /\ Has(registeredClasses, className)
    /\ Has(registeredClasses[className].properties, fieldName)
    /\ lastCall' = [name |-> fieldName, n |-> 1, kind |-> "property", w |-> 0,
                    wrapped |-> FALSE,
                    result |-> callSet(registeredClasses[className]
                                          .properties[fieldName]),
                    appended |-> <<>>, ran |-> <<>>, events |-> <<>>]
    /\ UNCHANGED <<registeredTypes, typeDependencies, awaitingDependencies,
                   publicSymbols, closures, others, registeredTuples, lastOp,
                   mod, lastGet>>
    /\ UNCHANGED aside

\* a property without setter and one with a setter
PropertyDecls == {[fieldName |-> "ro", setter |-> 0], [fieldName |-> "rw", setter |-> 1]}
BaseClass == CHOOSE c \in ClassDecls : c.baseClassRawType = 0

NextProp ==
    \/ EmbindRegisterClass(BaseClass)
    \/ \E p \in PropertyDecls :
          EmbindRegisterClassProperty(BaseClass.rawType, p.fieldName, ArgId,
                                      ArgId, p.setter)
    \/ \E imp \in FailImports : EmbindRegisterType(ArgId, imp)
    \/ \E p \in PropertyDecls : SetProperty(BaseClass.name, p.fieldName)

SpecProp == Init /\ [][NextProp]_vars

\* C23: every attempt to set a property registered without a setter fails
\* with the read-only error, before and after the type of the property is
\* registered.
C23_ReadOnlyProperty ==
    (lastCall.kind = "property" /\ lastCall.name = "ro") =>
        lastCall.result = "ErrReadOnly"

(***************************************************************************)
(* SpecSetter: a class and properties whose setter takes another type than *)
(* the getter returns; the two types are registered in every order.        *)
(***************************************************************************)
\* the raw id of the setter argument type
SetterId == ArgId + 1

NextSetter ==
    \/ EmbindRegisterClass(BaseClass)
    \/ \E p \in PropertyDecls :
          EmbindRegisterClassProperty(BaseClass.rawType, p.fieldName, ArgId,
                                      SetterId, p.setter)
    \/ \E imp \in FailImports : EmbindRegisterType(ArgId, imp)
    \/ \E imp \in TypeImports \ FailImports : EmbindRegisterType(SetterId, imp)
    \/ \E p \in PropertyDecls : SetProperty(BaseClass.name, p.fieldName)

SpecSetter == Init /\ [][NextSetter]_vars

\* the registrations of properties with a setter
SetterWaiters ==
    {w \in Waiters : /\ closures[w].produce.kind = "property"
                     /\ closures[w].produce.setter > 0}

\* C39: a property registered with a setter is bound to its getter and
\* setter only when getterReturnType and setterArgumentType are both
\* registered, and the bound setter encodes the assigned value with the
\* type registered at setterArgumentType
C39_SetterArgumentType ==
    \A w \in SetterWaiters :
        LET produce == closures[w].produce
            properties == registeredClasses[BaseClass.name].properties
            desc == properties[produce.fieldName]
        IN  (/\ Has(registeredClasses, BaseClass.name)
             /\ Has(properties, produce.fieldName)
             /\ desc.set = "setter") =>
                /\ Has(registeredTypes, produce.getterReturnType)
                /\ Has(registeredTypes, produce.setterArgumentType)
                /\ desc.setterArgumentType =
                      registeredTypes[produce.setterArgumentType]

(***************************************************************************)
(* SpecHandle: classes are registered and raw class pointers are decoded   *)
(* through their pointer types; decoded objects are deleted.               *)
(***************************************************************************)
MaxPointer == 2
Pointers == 0..MaxPointer
ClassHandles == {"nil", "handle"}

\* registeredPointerType.FromWireType: the handle construction is a comment,
\* the body returns the error for every pointer
PointerFromWireType(rpt, value) ==
    [out |-> "", err |-> "ErrUnknownFromWireType"]

\* registeredPointerType.DeleteObject: the delete of the handle is a comment,
\* the body returns nil
PointerDeleteObject(rpt, handle) == [destructed |-> 0, err |-> OK]

HandleUnchanged ==
    UNCHANGED <<registeredTypes, typeDependencies, awaitingDependencies,
                publicSymbols, closures, others,
                registeredTuples, lastOp, lastCall,
                mod, lastGet, emvalEngine, lastEmval, second, more>>

\* a raw pointer is decoded through the type registered under rawType
DecodeClassPointer(rawType, value) ==
    /\ Has(registeredTypes, rawType)
    /\ IsPointerType(registeredTypes[rawType])
    /\ LET r == PointerFromWireType(registeredTypes[rawType], value)
       IN  lastWire' = [op |-> "pointerFromWireType", rawType |-> rawType,
                        o |-> "", word |-> value, back |-> r.out, err |-> r.err]
    /\ HandleUnchanged

\* a decoded object is deleted through the type registered under rawType
DeleteClassObject(rawType, handle) ==
    /\ Has(registeredTypes, rawType)
    /\ IsPointerType(registeredTypes[rawType])
    /\ LET r == PointerDeleteObject(registeredTypes[rawType], handle)
       IN  lastWire' = [op |-> "deleteObject", rawType |-> rawType,
                        o |-> handle, word |-> r.destructed, back |-> "",
                        err |-> r.err]
    /\ HandleUnchanged

NextHandle ==
    \/ \E c \in ClassDecls : EmbindRegisterClass(c)
    \/ \E c \in ClassDecls, i \in 1..3, value \in Pointers :
          DecodeClassPointer(ClassIdsOf(c)[i], value)
    \/ \E c \in ClassDecls, i \in 1..3, handle \in ClassHandles :
          DeleteClassObject(ClassIdsOf(c)[i], handle)

SpecHandle == Init /\ [][NextHandle]_vars

\* C24: decoding a non-null class pointer gives a class handle (whose count
\* is 1, which clone() shares and increments and delete() decrements, the
\* raw destructor running once at zero).
C24_ClassHandleCount ==
    (lastWire.op = "pointerFromWireType" /\ lastWire.word # 0) =>
        (lastWire.err = OK /\ lastWire.back = "handle")

(***************************************************************************)
(* The steps of an invoker call, read from the events of the last call.    *)
(***************************************************************************)
\* the last call reached the invoker and its guest call succeeded
GuestCallSucceeded ==
    /\ lastCall.kind = "invoker"
    /\ \E i \in 1..Len(lastCall.events) : lastCall.events[i] = <<"call", 0>>

\* a queued destructor of the last call failed
DestructorFailed ==
    \E i \in 1..Len(lastCall.events) :
        lastCall.events[i][1] = "destructor-failed"

\* the return value of the last call was decoded
ReturnDecoded ==
    \E i \in 1..Len(lastCall.events) : lastCall.events[i] = <<"decode", 0>>

\* C25: a call whose guest call succeeded and whose return value can be
\* decoded returns the decoded value although a queued destructor failed.
C25_DestructorFailureKeepsResult ==
    (GuestCallSucceeded /\ DestructorFailed) =>
        (lastCall.result = OK /\ ReturnDecoded)

\* C28: in a successful call with a return value, no queued destructor runs
\* before the return value has been decoded: the steps are encode, call,
\* decode, destructors.
C28_DecodeBeforeDestructors ==
    (lastCall.kind = "invoker" /\ lastCall.result = OK /\ ReturnDecoded) =>
        \A i, j \in 1..Len(lastCall.events) :
            (lastCall.events[i][1] = "destructor"
             /\ lastCall.events[j] = <<"decode", 0>>) => j < i

\* C27: a call routed through an overload table to the resolved overload of
\* its arity hands it the arguments of the call, so that the argument count
\* check passes and the guest function is called.
C27_OverloadArguments ==
    ( /\ lastCall.wrapped
      /\ lastCall.kind = "invoker"
      /\ lastCall.w \in FunctionWaiters
      /\ Arity(lastCall.w) = lastCall.n )
    => (lastCall.result # "ErrArgCount" /\ GuestCallSucceeded)

\* the callback of closure w for its i-th dependent type was enqueued before
\* the callback of closure v for its j-th: closures are numbered in the order
\* of the whenDependentTypesAreResolved calls, and a call enqueues in the
\* order of its dependent types
EnqueuedBefore(w, i, v, j) == w < v \/ (w = v /\ i < j)

\* C26: the callbacks queued under an id run in the order in which they were
\* enqueued, so the replacements they trigger happen in the order of the
\* registrations that waited for the id.
C26_CallbacksInEnqueueOrder ==
    \A i, j \in 1..Len(fired) :
        (i < j /\ fired[i].dt = fired[j].dt) =>
            EnqueuedBefore(fired[i].w, fired[i].myI, fired[j].w, fired[j].myI)

\* the registration of an id ran the callbacks of two registrations that
\* waited for it, and both replaced their symbol
C26_Witness ==
    \E i, j \in 1..Len(fired) :
        /\ i < j
        /\ fired[i].dt = fired[j].dt
        /\ fired[i].w # fired[j].w
        /\ closures[fired[i].w].invoked = 1
        /\ closures[fired[j].w].invoked = 1

(***************************************************************************)
(* SpecValue: a value array and a value object with their elements         *)
(* declared are finalized while the types of the elements are registered,  *)
(* in every order.                                                         *)
(***************************************************************************)
MaxValueElements == 2
TupleId == MaxId + 1
ObjectId == MaxId + 2

\* _embind_finalize_value_object(structType)
EmbindFinalizeValueObject(structType) ==
    LET fieldRecords == registeredObjects[structType]
        produce == [kind |-> "object", name |-> "", publicSymbolArgs |-> 0,
                    isAsync |-> FALSE, elementsLength |-> Len(fieldRecords)]
        r == whenDependentTypesAreResolved(
                [Engine EXCEPT !.registeredObjects = Remove(@, structType)],
                <<structType>>, ElementTypes(fieldRecords, 1), produce)
    IN  /\ Has(registeredObjects, structType)
        /\ SetEngine(r.e)
        /\ Returned("finalizeValueObject", structType, Nil, NoOptions, r.err,
                    r.err # OK)
        /\ UNCHANGED registeredTuples
        /\ lastCall' = NoCall
        /\ MustGetEngineFromContext(GuestModule)
        /\ UNCHANGED aside

\* the elements _embind_register_value_array_element and
\* _embind_register_value_object_field declare
ValueElements == [getterReturnType : Ids, setterArgumentType : Ids]

\* the state after _embind_register_value_array(TupleId),
\* _embind_register_value_object(ObjectId) and the declaration of
\* MaxValueElements elements of each
InitValue ==
    \E elements \in [1..MaxValueElements -> ValueElements] :
        /\ registeredTypes = EmptyMap
        /\ typeDependencies = EmptyMap
        /\ awaitingDependencies = EmptyMap
        /\ publicSymbols = EmptyMap
        /\ closures = <<>>
        /\ registeredTuples = Put(EmptyMap, TupleId, elements)
        /\ registeredObjects = Put(EmptyMap, ObjectId, elements)
        /\ registeredClasses = EmptyMap
        /\ fired = <<>>
        /\ lastOp = [op |-> "registerValueObjectField", rawType |-> ObjectId,
                     type |-> Nil, options |-> NoOptions, err |-> OK,
                     panicked |-> FALSE]
        /\ lastCall = NoCall
        /\ mod = GuestModule
        /\ lastGet = [mod |-> GuestModule, panicked |-> FALSE]
        /\ emvalEngine = createEmvalEngine
        /\ lastEmval = NoEmval
        /\ second = Created
        /\ lastWire = NoWire
        /\ emvalMethods = NoMethodCallers
        /\ lastCaller = NoCaller
        /\ cxa = NoExceptions
        /\ registeredEnums = EmptyMap
        /\ lastEnum = NoEnum

NextValue ==
    \/ \E rawType \in Ids, imp \in TypeImports : EmbindRegisterType(rawType, imp)
    \/ EmbindFinalizeValueArray(TupleId)
    \/ EmbindFinalizeValueObject(ObjectId)

SpecValue == InitValue /\ [][NextValue]_vars

\* the closures of the finalized value arrays and value objects
ValueWaiters == {w \in Waiters : closures[w].produce.kind \in {"tuple", "object"}}

\* the id under which element i of closure w reads, and writes: the elements
\* are declared as getterReturnType, setterArgumentType pairs
GetterReturnType(w, i) == closures[w].dependentTypes[2 * i - 1]
SetterArgumentType(w, i) == closures[w].dependentTypes[2 * i]

\* C29: a finalized value array or value object is registered only once the
\* types of all its elements are registered, and element i is read with the
\* type registered at its getterReturnType and written with the type
\* registered at its setterArgumentType.
C29_ElementTypes ==
    \A w \in ValueWaiters :
        LET id == closures[w].myTypes[1]
        IN  Has(registeredTypes, id) =>
              /\ \A k \in 1..Len(closures[w].dependentTypes) :
                    Has(registeredTypes, closures[w].dependentTypes[k])
              /\ \A i \in 1..Len(registeredTypes[id].elements) :
                    /\ registeredTypes[id].elements[i].read =
                         registeredTypes[GetterReturnType(w, i)].name
                    /\ registeredTypes[id].elements[i].write =
                         registeredTypes[SetterArgumentType(w, i)].name

\* the declared class whose rawType is the base class id of c
BaseOf(c) == CHOOSE b \in ClassDecls : b.rawType = c.baseClassRawType

\* the number of times class name occurs in the derivedClasses of base
TimesDerived(base, name) ==
    IF ~Has(registeredClasses, base) THEN 0
    ELSE Cardinality({i \in 1..Len(registeredClasses[base].derivedClasses) :
                        registeredClasses[base].derivedClasses[i] = name})

\* C31: once a class registered with a base class id and its base are both
\* resolved, in either order of registration, the baseClass of the class is
\* the record of the base and the class occurs once in the derivedClasses of
\* the base; a class registered with base id 0 has no base class and is in no
\* derivedClasses list.
C31_BaseAndDerived ==
    \A c \in ClassDecls :
        IF c.baseClassRawType > 0
        THEN (ClassRegistered(c) /\ Has(registeredTypes, c.baseClassRawType)) =>
                /\ Has(registeredClasses, c.name)
                /\ registeredClasses[c.name].baseClass = BaseOf(c).name
                /\ TimesDerived(BaseOf(c).name, c.name) = 1
        ELSE Has(registeredClasses, c.name) =>
                /\ registeredClasses[c.name].baseClass = NoClass
                /\ \A b \in ClassDecls : TimesDerived(b.name, c.name) = 0

(***************************************************************************)
(* SpecMethod: a base and a derived class, instance and static methods of  *)
(* them and the type of the methods, registered in every order.            *)
(***************************************************************************)
MaxMethodWaiters == 6
MethodNames == {"m"}

\* _embind_register_class_function(rawClassType, methodName, argCount,
\* rawArgTypesAddr, ..., isPureVirtual = 0, isAsync = 0) when static is FALSE,
\* _embind_register_class_class_function(rawClassType, methodName, argCount,
\* rawArgTypesAddr, ..., isAsync = 0) when it is TRUE
EmbindRegisterClassFunction(rawClassType, methodName, rawArgTypes, static) ==
    LET produce == [kind |-> "classFunction", static |-> static,
                    methodName |-> methodName, argCount |-> Len(rawArgTypes),
                    rawArgTypes |-> rawArgTypes, name |-> methodName,
                    publicSymbolArgs |-> 0, isAsync |-> FALSE,
                    elementsLength |-> 0]
        r == whenDependentTypesAreResolved(Engine, <<>>, <<rawClassType>>, produce)
    IN  /\ Len(closures) + 1 < MaxMethodWaiters
        /\ SetEngine(r.e)
        /\ Returned(IF static THEN "registerClassClassFunction"
                    ELSE "registerClassFunction", rawClassType, Nil, NoOptions,
                    r.err, r.err # OK)
        /\ UNCHANGED registeredTuples
        /\ lastCall' = NoCall
        /\ MustGetEngineFromContext(GuestModule)
        /\ UNCHANGED aside

\* the [ReturnType, ThisType] of an instance method, the [ReturnType] of a
\* static method, without parameters
MethodArgTypes(c, static) == IF static THEN <<ArgId>> ELSE <<ArgId, c.rawType>>

NextMethod ==
    \/ \E c \in ClassDecls : EmbindRegisterClass(c)
    \/ \E c \in ClassDecls, m \in MethodNames, static \in BOOLEAN :
          EmbindRegisterClassFunction(c.rawType, m, MethodArgTypes(c, static), static)
    \/ \E imp \in FailImports : EmbindRegisterType(ArgId, imp)

SpecMethod == Init /\ [][NextMethod]_vars

\* the closures that bind method m of class c: the inner closures of the
\* method imports made for c
MethodBinders(c, m) ==
    {w \in 1..Len(closures) :
        /\ closures[w].produce.kind \in {"classFunctionArgs", "classClassFunctionArgs"}
        /\ closures[w].produce.className = c.name
        /\ closures[w].produce.methodName = m}

\* the closure of the registration of class c
ClassWaiters(c) == {w \in 1..Len(closures) : closures[w].myTypes = ClassIdsOf(c)}

C33_FailedRegistrationStays ==
    [][( /\ lastOp'.op = "registerType"
         /\ lastOp'.rawType # 0
         /\ ~Has(registeredTypes, lastOp'.rawType)
         /\ lastOp'.err # OK )
       => /\ Has(registeredTypes', lastOp'.rawType)
          /\ registeredTypes'[lastOp'.rawType] = lastOp'.type
          /\ \A id \in DOMAIN registeredTypes :
                /\ Has(registeredTypes', id)
                /\ registeredTypes'[id] = registeredTypes[id]]_vars

\* a registration failed in a callback, after another type was registered
C33_Witness ==
    /\ lastOp.op = "registerType"
    /\ lastOp.err \notin {OK, "ErrTwice", "ErrTypeId"}
    /\ Has(registeredTypes, lastOp.rawType)
    /\ registeredTypes[lastOp.rawType] = lastOp.type
    /\ Cardinality(DOMAIN registeredTypes) > 1

\* the names of the types stored under method caller id
StoredTypeNames(id) ==
    LET argTypes == emvalMethods.registeredMethods[id].argTypes
    IN  [i \in 1..Len(argTypes) |-> registeredTypes[argTypes[i]].name]

\* C34: the argument types stored under the id _emval_get_method_caller
\* returns are the resolved argument types of the call, in length and order,
\* so that a call through the id decodes with the types of its call site.
C34_StoredTypesOfCall ==
    lastCaller.op = "returned" =>
        /\ Has(emvalMethods.registeredMethods, lastCaller.id)
        /\ StoredTypeNames(lastCaller.id) = lastCaller.names

\* C37: between the imports no registered id has callbacks waiting for
\* it: awaitingDependencies has no entry, or an empty one, for every id in
\* registeredTypes, so every queued callback waits on an unregistered id
C37_NoQueueForRegistered ==
    \A r \in DOMAIN registeredTypes :
        Has(awaitingDependencies, r) => awaitingDependencies[r] = <<>>

\* a registration ran the callbacks that waited for its id while the
\* callbacks of another id are still queued
C37_Witness ==
    /\ lastOp.op = "registerType"
    /\ lastOp.err = OK
    /\ fired # <<>>
    /\ lastOp.rawType \in DOMAIN registeredTypes
    /\ ~Has(awaitingDependencies, lastOp.rawType)
    /\ \E d \in DOMAIN awaitingDependencies : awaitingDependencies[d] # <<>>

\* ---------------------------------------------------------------------
\* Enums (_embind_register_enum, _embind_register_enum_value)

\* the *enumType the engine keeps under the name of an enum; a value is
\* kept once, under its name, and valuesByCppValue points to it by name
newEnumType == [rawType |-> 0, valuesByName |-> EmptyMap,
                valuesByCppValue |-> EmptyMap]

\* the registered type of an enum: a pointer to registeredEnums[name]
enumType(name) ==
    [name |-> name, destructor |-> FALSE, elements |-> <<>>, enum |-> TRUE]

\* _embind_register_enum(rawType, name, size, isSigned); the error of
\* registerType is assigned and not looked at
EmbindRegisterEnum(rawType, name) ==
    LET known == IF Has(registeredEnums, name) THEN registeredEnums[name]
                 ELSE newEnumType
        r == registerType(Engine, rawType, enumType(name), NoOptions)
    IN  /\ MustGetEngineFromContext(GuestModule)
        /\ registeredEnums' =
              Put(registeredEnums, name, [known EXCEPT !.rawType = rawType])
        /\ SetEngine(r.e)
        /\ Returned("registerEnum", rawType, enumType(name), NoOptions,
                    r.err, FALSE)
        /\ lastEnum' = [NoEnum EXCEPT !.op = "registerEnum", !.enum = name,
                                      !.before = registeredEnums]
        /\ lastCall' = NoCall
        /\ UNCHANGED <<registeredTuples, emvalEngine, lastEmval, second,
                       lastWire, emvalMethods, lastCaller, cxa>>

\* the maps of an enum after a value was stored under name and enumWireValue
storeEnumValue(enum, name, enumWireValue) ==
    [enum EXCEPT
        !.valuesByName = Put(@, name, [name |-> name, hasCppValue |-> TRUE,
                                       cppValue |-> enumWireValue]),
        !.valuesByCppValue = Put(@, enumWireValue, name)]

\* _embind_register_enum_value(rawEnumType, name, enumValue); enumWireValue
\* is what the integer helper of the enum decoded from the stack
EmbindRegisterEnumValue(rawType, name, enumWireValue) ==
    LET ok == Has(registeredTypes, rawType)
        registeredType == registeredTypes[rawType]
        isEnum == "enum" \in DOMAIN registeredType
        enum == registeredEnums[registeredType.name]
        had == /\ Has(enum.valuesByName, name)
               /\ enum.valuesByName[name].hasCppValue
        err == IF ~ok THEN "UnknownType"
               ELSE IF ~isEnum THEN "PanicTypeAssertion"
               ELSE IF had THEN "AlreadyRegistered"
               ELSE OK
    IN  /\ MustGetEngineFromContext(GuestModule)
        /\ registeredEnums' =
              IF err # OK THEN registeredEnums
              ELSE Put(registeredEnums, registeredType.name,
                       storeEnumValue(enum, name, enumWireValue))
        /\ lastEnum' = [op |-> "registerEnumValue",
                        enum |-> IF ok /\ isEnum THEN registeredType.name
                                 ELSE "",
                        name |-> name, value |-> enumWireValue,
                        had |-> ok /\ isEnum /\ had, err |-> err,
                        before |-> registeredEnums]
        /\ UNCHANGED <<registeredTypes, typeDependencies,
                       awaitingDependencies, publicSymbols, closures,
                       registeredTuples, lastOp, lastCall, others,
                       emvalEngine, lastEmval, second, lastWire,
                       emvalMethods, lastCaller, cxa>>

EnumNames == {"E"}
EnumValueNames == {"a", "b"}
EnumWireValues == 0..MaxEnumValue

NextEnum ==
    \/ \E rawType \in 1..MaxEnumId, imp \in TypeImports :
          EmbindRegisterType(rawType, imp)
    \/ \E rawType \in 1..MaxEnumId, name \in EnumNames :
          EmbindRegisterEnum(rawType, name)
    \/ \E rawType \in 1..MaxEnumId, name \in EnumValueNames,
          enumWireValue \in EnumWireValues :
          EmbindRegisterEnumValue(rawType, name, enumWireValue)

SpecEnum == Init /\ [][NextEnum]_vars

\* the names of an enum that have a C++ value
CppNames(enum) ==
    {n \in DOMAIN enum.valuesByName : enum.valuesByName[n].hasCppValue}

\* C36: after any _embind_register_enum_value calls on an enum, looking up
\* the wire value of every registered name in the wire map yields the
\* value of that name; registering a name that already has a C++ value
\* fails and changes neither map
C36_EnumMapsConsistent ==
    /\ \A e \in DOMAIN registeredEnums :
          \A n \in CppNames(registeredEnums[e]) :
             LET w == registeredEnums[e].valuesByName[n].cppValue
             IN  /\ Has(registeredEnums[e].valuesByCppValue, w)
                 /\ registeredEnums[e].valuesByCppValue[w] = n
    /\ (lastEnum.op = "registerEnumValue" /\ lastEnum.had) =>
          /\ lastEnum.err # OK
          /\ registeredEnums = lastEnum.before

\* ---------------------------------------------------------------------
\* The C++ exception imports (internal/emscripten/exceptions.go)

\* the variables the exception imports leave alone
embind == <<registeredTypes, typeDependencies, awaitingDependencies,
            publicSymbols, closures, registeredTuples, lastOp, lastCall, mod,
            lastGet, emvalEngine, lastEmval, second, lastWire, emvalMethods,
            lastCaller, registeredEnums, lastEnum, others>>

\* exceptionInfo.Init on the header __cxa_allocate_exception zeroed: the
\* adjusted pointer and the type are written, the caught and rethrown
\* bytes are left as they are in memory
InfoInit(header, exceptionType) ==
    [header EXCEPT !.adjustedPtr = 0, !.type = exceptionType]

\* __cxa_throw(ptr, type, destructor)
cxaThrow(x, ptr, exceptionType) ==
    [x EXCEPT !.memory[ptr] = InfoInit(ZeroInfo, exceptionType),
              !.exceptionLast = ptr,
              !.uncaughtExceptionCount = @ + 1,
              !.thrown = @ \cup {ptr},
              !.uncaught = @ \cup {ptr},
              !.last = [NoCxa EXCEPT !.op = "throw", !.ptr = ptr,
                                     !.before = x.uncaughtExceptionCount]]

\* __cxa_begin_catch(ptr) as it would be without the test of the caught
\* byte: every call takes one from the count
cxaBeginCatch_AlwaysCounts(x, ptr) ==
    [x EXCEPT !.memory[ptr].caught = 1,
              !.memory[ptr].rethrown = 0,
              !.uncaughtExceptionCount = @ - 1,
              !.exceptionCaught = Append(@, ptr),
              !.uncaught = @ \ {ptr},
              !.last = [NoCxa EXCEPT !.op = "beginCatch", !.ptr = ptr,
                                     !.ret = ptr,
                                     !.caught = x.memory[ptr].caught,
                                     !.before = x.uncaughtExceptionCount]]

\* __cxa_begin_catch(ptr)
cxaBeginCatch(x, ptr) ==
    LET caught == x.memory[ptr].caught
    IN  [x EXCEPT !.memory[ptr].caught = 1,
                  !.memory[ptr].rethrown = 0,
                  !.uncaughtExceptionCount = IF caught = 0 THEN @ - 1 ELSE @,
                  !.exceptionCaught = Append(@, ptr),
                  !.uncaught = @ \ {ptr},
                  !.last = [NoCxa EXCEPT !.op = "beginCatch", !.ptr = ptr,
                                         !.ret = ptr, !.caught = caught,
                                         !.before = x.uncaughtExceptionCount]]

\* __cxa_end_catch()
cxaEndCatch(x) ==
    LET n == Len(x.exceptionCaught)
    IN  [x EXCEPT !.exceptionCaught = SubSeq(@, 1, n - 1),
                  !.exceptionLast = 0,
                  !.last = [NoCxa EXCEPT !.op = "endCatch",
                                         !.ptr = x.exceptionCaught[n],
                                         !.before = x.uncaughtExceptionCount]]

\* __cxa_rethrow()
cxaRethrow(x) ==
    LET n == Len(x.exceptionCaught)
        ptr == x.exceptionCaught[n]
        rethrown == x.memory[ptr].rethrown
    IN  IF n = 0
        THEN [x EXCEPT !.last = [NoCxa EXCEPT !.op = "rethrowPanicked",
                                     !.before = x.uncaughtExceptionCount]]
        ELSE [x EXCEPT
                !.exceptionCaught = IF rethrown = 0 THEN @
                                    ELSE SubSeq(@, 1, n - 1),
                !.memory[ptr].rethrown = IF rethrown = 0 THEN 1 ELSE @,
                !.memory[ptr].caught = IF rethrown = 0 THEN 0 ELSE @,
                !.uncaughtExceptionCount = IF rethrown = 0 THEN @ + 1 ELSE @,
                !.uncaught = @ \cup {ptr},
                !.exceptionLast = ptr,
                !.last = [NoCxa EXCEPT !.op = "rethrow", !.ptr = ptr,
                                       !.rethrown = rethrown,
                                       !.before = x.uncaughtExceptionCount]]

\* __cxa_uncaught_exceptions()
cxaUncaughtExceptions(x) ==
    [x EXCEPT !.last = [NoCxa EXCEPT !.op = "uncaughtExceptions",
                                     !.ret = x.uncaughtExceptionCount,
                                     !.before = x.uncaughtExceptionCount]]

\* the loop over the catch clauses of FindMatchingCatchFunc.Call: the
\* value setTempRet0 was last called with and the value in stack[0] when
\* the loop is left; accept holds the types __cxa_can_catch accepts
RECURSIVE matchClauses(_, _, _, _, _, _)
matchClauses(clauses, i, thrown, thrownType, accept, out) ==
    IF i > Len(clauses) THEN out
    ELSE IF clauses[i] = 0 \/ clauses[i] = thrownType THEN out
    ELSE IF clauses[i] \in accept
         THEN matchClauses(clauses, i + 1, thrown, thrownType, accept,
                           [tempRet0 |-> clauses[i], ret |-> thrown])
         ELSE matchClauses(clauses, i + 1, thrown, thrownType, accept, out)

\* FindMatchingCatchFunc.Call with the clause types on the stack
findMatchingCatch(x, clauses, accept) ==
    LET thrown == x.exceptionLast
        thrownType == x.memory[thrown].type
        passThroughNull ==
            [x EXCEPT !.tempRet0 = 0,
                      !.last = [NoCxa EXCEPT !.op = "passThroughNull",
                                    !.clauses = clauses, !.accept = accept,
                                    !.before = x.uncaughtExceptionCount]]
        looped == matchClauses(clauses, 1, thrown, thrownType, accept,
                               [tempRet0 |-> x.tempRet0, ret |-> clauses[1]])
    IN  IF thrown = 0 THEN passThroughNull
        ELSE IF thrownType = 0
             THEN [passThroughNull EXCEPT !.memory[thrown].adjustedPtr = thrown]
             ELSE [x EXCEPT !.memory[thrown].adjustedPtr = thrown,
                            !.tempRet0 = thrownType,
                            !.last = [NoCxa EXCEPT
                                        !.op = "findMatchingCatch",
                                        !.ptr = thrown, !.ret = thrown,
                                        !.thrownType = thrownType,
                                        !.clauses = clauses,
                                        !.accept = accept,
                                        !.inLoop = looped,
                                        !.before = x.uncaughtExceptionCount]]

\* the guest throws an exception it has just allocated
CxaThrow(ptr, exceptionType) ==
    /\ ptr \notin cxa.thrown
    /\ cxa' = cxaThrow(cxa, ptr, exceptionType)
    /\ UNCHANGED embind

\* a landing pad passes an exception that was thrown to __cxa_begin_catch
CxaBeginCatch(ptr) ==
    /\ ptr \in cxa.thrown
    /\ Len(cxa.exceptionCaught) < MaxCaught
    /\ cxa' = cxaBeginCatch(cxa, ptr)
    /\ UNCHANGED embind

\* a handler is left
CxaEndCatch ==
    /\ cxa.exceptionCaught # <<>>
    /\ cxa' = cxaEndCatch(cxa)
    /\ UNCHANGED embind

CxaRethrow ==
    /\ cxa' = cxaRethrow(cxa)
    /\ UNCHANGED embind

CxaUncaughtExceptions ==
    /\ cxa' = cxaUncaughtExceptions(cxa)
    /\ UNCHANGED embind

\* the catch clause lists of a landing pad: 0 is catch (...)
ClauseLists ==
    UNION {[1..n -> 0..MaxClauseType] : n \in 1..MaxClauses}

FindMatchingCatch(clauses, accept) ==
    /\ cxa' = findMatchingCatch(cxa, clauses, accept)
    /\ UNCHANGED embind

NextCatch ==
    \/ \E ptr \in ExceptionPtrs, t \in ExceptionTypes : CxaThrow(ptr, t)
    \/ \E clauses \in ClauseLists, accept \in SUBSET (1..MaxClauseType) :
          FindMatchingCatch(clauses, accept)

SpecCatch == Init /\ [][NextCatch]_vars

\* the first clause that ends the search of a landing pad: one equal to 0
\* or to the thrown type, or one __cxa_can_catch accepts; 0 when there is none
FirstMatch(clauses, thrownType, accept) ==
    LET hits == {i \in 1..Len(clauses) :
                    \/ clauses[i] = 0
                    \/ clauses[i] = thrownType
                    \/ clauses[i] \in accept}
    IN  IF hits = {} THEN 0
        ELSE CHOOSE i \in hits : \A j \in hits : i <= j

\* the catch block the landing pad has to run
CatchBlock(clauses, thrownType, accept) ==
    LET i == FirstMatch(clauses, thrownType, accept)
    IN  IF i = 0 \/ clauses[i] = 0 \/ clauses[i] = thrownType
        THEN thrownType
        ELSE clauses[i]

\* C35: __cxa_find_matching_catch_N with a pending exception of type T
\* ends with tempRet0 = ci when __cxa_can_catch accepts a clause ci other
\* than 0 and T before a clause equal to 0 or T is met, with tempRet0 = T
\* otherwise, and returns the thrown pointer in every case
C35_MatchingCatch ==
    cxa.last.op = "findMatchingCatch" =>
        /\ cxa.last.ret = cxa.last.ptr
        /\ cxa.tempRet0 = CatchBlock(cxa.last.clauses, cxa.last.thrownType,
                                     cxa.last.accept)

NextThrow ==
    \/ \E ptr \in ExceptionPtrs, t \in ExceptionTypes : CxaThrow(ptr, t)
    \/ \E ptr \in ExceptionPtrs : CxaBeginCatch(ptr)
    \/ CxaEndCatch
    \/ CxaRethrow
    \/ CxaUncaughtExceptions

SpecThrow == Init /\ [][NextThrow]_vars

CalledClass == registeredClasses[publicSymbols[lastCall.name].fn.className]

\* C30: a call of a resolved class's constructor symbol with n arguments runs
\* the constructor registered with n parameters on exactly those arguments;
\* it fails when no constructor has arity n, and fails with 'no accessible
\* constructor' when the class has no constructor.
C30_ConstructorByArity ==
    ( /\ lastCall.result # "none"
      /\ Has(publicSymbols, lastCall.name)
      /\ publicSymbols[lastCall.name].fn.kind = "constructor" )
    => /\ ~CalledClass.hasConstructors => lastCall.result = "ErrNoConstructor"
       /\ (CalledClass.hasConstructors /\ ~Has(CalledClass.constructors, lastCall.n))
             => lastCall.result \notin {OK, "ErrNoConstructor"}
       /\ ( /\ Has(CalledClass.constructors, lastCall.n)
            /\ CalledClass.constructors[lastCall.n].kind = "invoker" )
             => /\ lastCall.kind = "invoker"
                /\ lastCall.w = CalledClass.constructors[lastCall.n].w
                /\ ~lastCall.wrapped
                /\ lastCall.result = OK
====
